---- MODULE Spec2Model ----
(***************************************************************************)
(* A model of the Eurostat API client (eurostat-api.ts): the rate-limited  *)
(* fetch primitive, the table-of-contents and geo-code caches, dataset     *)
(* search, and the JSON-stat decoder with its table renderer.              *)
(*                                                                         *)
(* Strings are sequences of one-character strings.  An optional value is   *)
(* a sequence of length 0 (null) or 1 (the value), so that null and an     *)
(* empty list stay distinct, as they are in JavaScript.                    *)
(***************************************************************************)
EXTENDS Integers, Sequences, FiniteSets, TLC

VARIABLES
    clock,              \* Date.now(), in ms
    lastRequestTime,    \* module variable of rateLimitedFetch
    cachedToc,          \* TocEntry[] | null
    tocCachedAt,
    cachedGeoCodes,     \* GeoCode[] | null
    geoCodesCachedAt,
    calls,              \* the async calls in progress: slot -> frame
    returned,           \* what the call that ended last gave its caller
    fn,                 \* function-level specifications: the function applied
    args,               \* ... its arguments
    ret                 \* ... its return value (Null before the call)

vars == <<clock, lastRequestTime, cachedToc, tocCachedAt, cachedGeoCodes,
          geoCodesCachedAt, calls, returned, fn, args, ret>>

fnVars == <<fn, args, ret>>

tocVars == <<cachedToc, tocCachedAt>>

geoVars == <<cachedGeoCodes, geoCodesCachedAt>>

----------------------------------------------------------------------------
(* Bounds of the model *)

MaxCalls == 2
\* calls that may be in progress at once

StartTime == 1000
\* Date.now() when the module is loaded

Slack == 350
\* how far the clock runs beyond StartTime

SlackAfter == 175
\* how far the clock runs beyond StartTime + TOC_CACHE_DURATION_MS

----------------------------------------------------------------------------
(* Program constants *)

MIN_REQUEST_INTERVAL_MS == 350

TOC_CACHE_DURATION_MS == 60 * 60 * 1000

DEFAULT_LIMIT == 20

GEO_RESULT_LIMIT == 20

EXACT_CODE_BONUS == 100

----------------------------------------------------------------------------
(* Optional values and small helpers *)

Null == <<>>

Some(x) == <<x>>

Min(a, b) == IF a <= b THEN a ELSE b

Max(a, b) == IF a >= b THEN a ELSE b

----------------------------------------------------------------------------
(* Strings *)

TAB == "\t"

NL == "\n"

IsSpace(ch) == ch \in {" ", "\t", "\n", "\r"}

\* String.prototype.toLowerCase, on the characters of the model
LowerChar(ch) ==
    CASE ch = "A" -> "a"
      [] ch = "B" -> "b"
      [] ch = "C" -> "c"
      [] ch = "D" -> "d"
      [] ch = "E" -> "e"
      [] ch = "L" -> "l"
      [] ch = "O" -> "o"
      [] ch = "S" -> "s"
      [] ch = "T" -> "t"
      [] ch = "U" -> "u"
      [] ch = "X" -> "x"
      [] ch = "Z" -> "z"
      [] ch = "O_uml" -> "o_uml"
      [] OTHER -> ch

toLowerCase(s) == [i \in 1..Len(s) |-> LowerChar(s[i])]

\* String.prototype.trim
RECURSIVE TrimStart(_)
TrimStart(s) ==
    IF s # <<>> /\ IsSpace(Head(s)) THEN TrimStart(Tail(s)) ELSE s

RECURSIVE TrimEnd(_)
TrimEnd(s) ==
    IF s # <<>> /\ IsSpace(s[Len(s)]) THEN TrimEnd(SubSeq(s, 1, Len(s) - 1)) ELSE s

trim(s) == TrimEnd(TrimStart(s))

\* String.prototype.split with a one-character separator: always at least
\* one part, empty parts kept
RECURSIVE split(_, _)
split(s, sep) ==
    IF \E i \in 1..Len(s) : s[i] = sep
    THEN LET i == CHOOSE k \in 1..Len(s) :
                      s[k] = sep /\ \A j \in 1..(k - 1) : s[j] # sep
         IN  <<SubSeq(s, 1, i - 1)>> \o split(SubSeq(s, i + 1, Len(s)), sep)
    ELSE <<s>>

\* String.prototype.includes
includes(s, sub) ==
    \E i \in 0..(Len(s) - Len(sub)) : SubSeq(s, i + 1, i + Len(sub)) = sub

\* query.split(/\s+/).filter(Boolean): the maximal runs of non-space characters
RECURSIVE splitWhitespace(_)
splitWhitespace(s) ==
    LET t == TrimStart(s) IN
    IF t = <<>> THEN <<>>
    ELSE LET n == IF \E i \in 1..Len(t) : IsSpace(t[i])
                  THEN (CHOOSE k \in 1..Len(t) :
                            IsSpace(t[k]) /\ \A j \in 1..(k - 1) : ~IsSpace(t[j])) - 1
                  ELSE Len(t)
         IN  <<SubSeq(t, 1, n)>> \o splitWhitespace(SubSeq(t, n + 1, Len(t)))

----------------------------------------------------------------------------
(* fetchToc: parsing the tab-separated catalogue *)

\* parts[k] || undefined (k is 1-based here); undefined is the empty string,
\* which the code never stores in these fields
OptField(parts, k) == IF Len(parts) >= k THEN parts[k] ELSE <<>>

\* the object pushed for one line
TocEntryOf(parts) ==
    [title      |-> OptField(parts, 1),
     code       |-> OptField(parts, 2),
     type       |-> OptField(parts, 3),
     lastUpdate |-> OptField(parts, 4),
     dataStart  |-> OptField(parts, 6),
     dataEnd    |-> OptField(parts, 7),
     values     |-> OptField(parts, 8)]

\* the body of the for loop, for one element of lines
ParseTocLine(rawLine) ==
    LET line == trim(rawLine) IN
    IF line = <<>> THEN <<>>
    ELSE LET parts == split(line, TAB) IN
         IF Len(parts) >= 2 THEN <<TocEntryOf(parts)>> ELSE <<>>

RECURSIVE ParseTocLines(_, _)
ParseTocLines(lines, i) ==
    IF i > Len(lines) THEN <<>>
    ELSE ParseTocLine(lines[i]) \o ParseTocLines(lines, i + 1)

\* text.split("\n"), then the loop from the second line on
ParseToc(text) == ParseTocLines(split(text, NL), 2)

----------------------------------------------------------------------------
(* searchDatasets: scoring, ranking, truncation *)

\* the for loop over terms: one point per term found in the searchable text
RECURSIVE TermHits(_, _)
TermHits(searchable, terms) ==
    IF terms = <<>> THEN 0
    ELSE (IF includes(searchable, Head(terms)) THEN 1 ELSE 0)
         + TermHits(searchable, Tail(terms))

\* scoring without the bonus for the exact code
ExactBonus_None(entry, lowerQuery) == 0

\* "Exact code match gets highest priority"
ExactBonus(entry, lowerQuery) ==
    IF toLowerCase(entry.code) = lowerQuery THEN EXACT_CODE_BONUS ELSE 0

\* the callback of toc.map
Score(entry, query) ==
    LET lowerQuery == toLowerCase(query)
        terms      == splitWhitespace(lowerQuery)
        searchable == toLowerCase(entry.title \o <<" ">> \o entry.code)
    IN  TermHits(searchable, terms) + ExactBonus(entry, lowerQuery)

\* .filter((item) => item.score > 0), on the catalogue positions
RECURSIVE FilterScored(_, _, _)
FilterScored(toc, query, i) ==
    IF i > Len(toc) THEN <<>>
    ELSE (IF Score(toc[i], query) > 0 THEN <<i>> ELSE <<>>)
         \o FilterScored(toc, query, i + 1)

\* Array.prototype.sort with (a, b) => b.score - a.score: a stable sort, so
\* an item goes after every item already placed whose score is not smaller
RECURSIVE InsertByScore(_, _, _, _)
InsertByScore(sorted, i, toc, query) ==
    IF sorted = <<>> THEN <<i>>
    ELSE IF Score(toc[Head(sorted)], query) >= Score(toc[i], query)
         THEN <<Head(sorted)>> \o InsertByScore(Tail(sorted), i, toc, query)
         ELSE <<i>> \o sorted

RECURSIVE SortByScore(_, _, _)
SortByScore(items, toc, query) ==
    IF items = <<>> THEN <<>>
    ELSE InsertByScore(SortByScore(SubSeq(items, 1, Len(items) - 1), toc, query),
                       items[Len(items)], toc, query)

\* Array.prototype.slice(0, end) for an integer end: a negative end counts
\* from the end of the array
slice0(s, end) ==
    LET stop == IF end < 0 THEN Max(Len(s) + end, 0) ELSE Min(end, Len(s))
    IN  SubSeq(s, 1, stop)

\* the positions, in toc, of the entries searchDatasets returns, in order
SearchRanking(toc, query, limit) ==
    slice0(SortByScore(FilterScored(toc, query, 1), toc, query), limit)

\* scored.map((s) => s.entry)
searchDatasets(toc, query, limit) ==
    LET r == SearchRanking(toc, query, limit) IN [k \in 1..Len(r) |-> toc[r[k]]]

----------------------------------------------------------------------------
(* resolveGeoCode: parsing the GEO codelist, matching *)

\* The XML document is a sequence of tags:
\*   [tag |-> "Code", id |-> s]              <s:Code id="s" ...>
\*   [tag |-> "Name", lang |-> l, text |-> s] <c:Name xml:lang="l">s</c:Name>
\* codeRegex matches from an <s:Code> with a non-empty id to the first later
\* English <c:Name> with a non-empty text, whatever lies between.
IsCodeTag(t) == t.tag = "Code" /\ t.id # <<>>

IsEnName(t) == t.tag = "Name" /\ t.lang = "en" /\ t.text # <<>>

\* the aggregate prefix tested before the length
GeoLevel_PrefixFirst(code) ==
    IF Len(code) >= 2 /\ SubSeq(code, 1, 2) \in {<<"E", "U">>, <<"E", "A">>}
    THEN "aggregate"
    ELSE IF Len(code) = 2 THEN "country"
    ELSE IF Len(code) = 3 THEN "nuts1"
    ELSE IF Len(code) = 4 THEN "nuts2"
    ELSE IF Len(code) = 5 THEN "nuts3"
    ELSE "other"

\* lines 476-481
GeoLevel(code) ==
    IF Len(code) = 2 THEN "country"
    ELSE IF Len(code) = 3 THEN "nuts1"
    ELSE IF Len(code) = 4 THEN "nuts2"
    ELSE IF Len(code) = 5 THEN "nuts3"
    ELSE IF Len(code) >= 2 /\ SubSeq(code, 1, 2) \in {<<"E", "U">>, <<"E", "A">>}
         THEN "aggregate"
    ELSE "other"

\* the while loop over codeRegex.exec(xml), from tag position p
RECURSIVE ParseGeoFrom(_, _)
ParseGeoFrom(xml, p) ==
    IF ~\E i \in p..Len(xml) : IsCodeTag(xml[i]) THEN <<>>
    ELSE LET i == CHOOSE k \in p..Len(xml) :
                      IsCodeTag(xml[k]) /\ \A j \in p..(k - 1) : ~IsCodeTag(xml[j])
         IN  IF ~\E n \in (i + 1)..Len(xml) : IsEnName(xml[n]) THEN <<>>
             ELSE LET n == CHOOSE k \in (i + 1)..Len(xml) :
                               IsEnName(xml[k])
                               /\ \A j \in (i + 1)..(k - 1) : ~IsEnName(xml[j])
                  IN  <<[code  |-> xml[i].id,
                         name  |-> xml[n].text,
                         level |-> GeoLevel(xml[i].id)]>>
                      \o ParseGeoFrom(xml, n + 1)

ParseGeo(xml) == ParseGeoFrom(xml, 1)

\* s.normalize("NFD"): a precomposed letter becomes its base letter followed
\* by a combining mark
NFDChar(ch) ==
    CASE ch = "o_uml" -> <<"o", "COMBINING_DIAERESIS">>
      [] ch = "O_uml" -> <<"O", "COMBINING_DIAERESIS">>
      [] OTHER -> <<ch>>

IsCombiningMark(ch) == ch = "COMBINING_DIAERESIS"

RECURSIVE NFD(_)
NFD(s) == IF s = <<>> THEN <<>> ELSE NFDChar(Head(s)) \o NFD(Tail(s))

\* .replace(/[\u0300-\u036f]/g, "")
RECURSIVE StripMarks(_)
StripMarks(s) ==
    IF s = <<>> THEN <<>>
    ELSE (IF IsCombiningMark(Head(s)) THEN <<>> ELSE <<Head(s)>>) \o StripMarks(Tail(s))

normalize(s) == StripMarks(NFD(toLowerCase(s)))

\* a comparison that lowers the case and leaves the accents
fuzzyMatch_NoStrip(text, query) == includes(toLowerCase(text), toLowerCase(query))

fuzzyMatch(text, query) == includes(normalize(text), normalize(query))

GeoMatches(gc, query) ==
    LET lowerQuery == toLowerCase(query) IN
    \/ toLowerCase(gc.code) = lowerQuery
    \/ includes(toLowerCase(gc.name), lowerQuery)
    \/ fuzzyMatch(gc.name, query)

RECURSIVE FilterGeo(_, _)
FilterGeo(codes, query) ==
    IF codes = <<>> THEN <<>>
    ELSE (IF GeoMatches(Head(codes), query) THEN <<Head(codes)>> ELSE <<>>)
         \o FilterGeo(Tail(codes), query)

\* every match returned, without the cut at 20
resolveFromCache_NoLimit(codes, query) == FilterGeo(codes, query)

\* the part of resolveGeoCode after the cache is ensured
resolveFromCache(codes, query) == slice0(FilterGeo(codes, query), GEO_RESULT_LIMIT)

----------------------------------------------------------------------------
(* What the upstream service may answer *)

Langs == {"en", "fr"}

\* catalogue texts: a header line, then title TAB code lines
TocTextEn == <<"h", "\n", "a", "\t", "x", "\n", "b", "\t", "y">>

TocTextEnEmpty == <<"h">>

TocTextFr == <<"h", "\n", "c", "\t", "x">>

TocResponses(lang) == IF lang = "en" THEN {TocTextEn, TocTextEnEmpty} ELSE {TocTextFr}

GeoXml1 ==
    <<[tag |-> "Code", id |-> <<"D", "E">>],
      [tag |-> "Name", lang |-> "de", text |-> <<"d">>],
      [tag |-> "Name", lang |-> "en", text |-> <<"g">>],
      [tag |-> "Code", id |-> <<"A", "T">>],
      [tag |-> "Name", lang |-> "en", text |-> <<"O_uml", "s">>]>>

GeoResponses == {GeoXml1}

SearchQueries == {<<"x">>}

GeoQueries == {<<"O", "s">>}

----------------------------------------------------------------------------
(* The calls in progress *)

Calls == 1..MaxCalls

IdleFrame ==
    [pc |-> "idle", op |-> "none", lang |-> "none", query |-> <<>>,
     now |-> 0, due |-> 0, sent |-> 0]

\* The frame of a call of op suspended at an await.  now is the local
\* constant `now` of fetchToc or resolveGeoCode, due the time the timer of
\* rateLimitedFetch is set for, sent the number of requests dispatched.
Frame(pc, op, lang, query, now, due, sent) ==
    [pc |-> pc, op |-> op, lang |-> lang, query |-> query,
     now |-> now, due |-> due, sent |-> sent]

\* a new call takes the lowest free slot (the slots are interchangeable)
FreeSlot(c) == calls[c].pc = "idle" /\ \A k \in 1..(c - 1) : calls[k].pc # "idle"

NoReturn ==
    [op |-> "none", lang |-> "none", outcome |-> "none", sent |-> 0, value |-> Null]

\* a call ends: outcome "value" (the promise resolves with value[1]) or the
\* kind of error it rejects with
Returned(op, lang, outcome, sent, value) ==
    [op |-> op, lang |-> lang, outcome |-> outcome, sent |-> sent, value |-> value]

\* a cache check that forgets the age of the snapshot
TocFresh_NoExpiry(now) == cachedToc # Null

\* now - tocCachedAt < TOC_CACHE_DURATION_MS, for a cached catalogue of that age
TocFreshAt(age) == age < TOC_CACHE_DURATION_MS

\* now - geoCodesCachedAt > TOC_CACHE_DURATION_MS, for a cached list of that age
GeoStaleAt(age) == age > TOC_CACHE_DURATION_MS

\* the condition under which fetchToc returns cachedToc
TocFresh(now) == cachedToc # Null /\ TocFreshAt(now - tocCachedAt)

\* the condition under which resolveGeoCode fetches the codelist
GeoStale(now) == cachedGeoCodes = Null \/ GeoStaleAt(now - geoCodesCachedAt)

\* the delay rateLimitedFetch passes to setTimeout
WaitFor(elapsed) == MIN_REQUEST_INTERVAL_MS - elapsed

\* rateLimitedFetch up to its first suspension: either the timer is set, or
\* the timestamp is taken and the request dispatched at once
RateLimitedFetch(c, op, lang, query) ==
    LET now     == clock
        elapsed == now - lastRequestTime
    IN  IF elapsed < MIN_REQUEST_INTERVAL_MS
        THEN /\ calls' = [calls EXCEPT ![c] =
                    Frame("waiting", op, lang, query, now, now + WaitFor(elapsed), 0)]
             /\ UNCHANGED lastRequestTime
        ELSE /\ calls' = [calls EXCEPT ![c] =
                    Frame("fetching", op, lang, query, now, 0, 1)]
             /\ lastRequestTime' = clock

\* searchDatasets(query, lang) is called.  With a fresh cache fetchToc
\* returns at once and the call runs to its end.
SearchStart(c, lang, query) ==
    /\ FreeSlot(c)
    /\ IF TocFresh(clock)
       THEN /\ returned' = Returned("searchDatasets", lang, "value", 0,
                               Some(searchDatasets(cachedToc[1], query, DEFAULT_LIMIT)))
            /\ UNCHANGED <<calls, lastRequestTime>>
       ELSE /\ RateLimitedFetch(c, "searchDatasets", lang, query)
            /\ UNCHANGED returned
    /\ UNCHANGED <<clock, tocVars, geoVars, fnVars>>

\* resolveGeoCode(query) is called
ResolveStart(c, query) ==
    /\ FreeSlot(c)
    /\ IF GeoStale(clock)
       THEN /\ RateLimitedFetch(c, "resolveGeoCode", "none", query)
            /\ UNCHANGED returned
       ELSE /\ returned' = Returned("resolveGeoCode", "none", "value", 0,
                               Some(resolveFromCache(cachedGeoCodes[1], query)))
            /\ UNCHANGED <<calls, lastRequestTime>>
    /\ UNCHANGED <<clock, tocVars, geoVars, fnVars>>

\* a timer callback that dispatches without taking the timestamp
TimerFires_NoTimestamp(c) ==
    /\ calls[c].pc = "waiting"
    /\ clock >= calls[c].due
    /\ calls' = [calls EXCEPT ![c] = [@ EXCEPT !.pc = "fetching", !.due = 0, !.sent = @ + 1]]
    /\ UNCHANGED <<clock, lastRequestTime, tocVars, geoVars, returned, fnVars>>

\* the setTimeout of rateLimitedFetch fires: timestamp, then fetch
TimerFires(c) ==
    /\ calls[c].pc = "waiting"
    /\ clock >= calls[c].due
    /\ lastRequestTime' = clock
    /\ calls' = [calls EXCEPT ![c] = [@ EXCEPT !.pc = "fetching", !.due = 0, !.sent = @ + 1]]
    /\ UNCHANGED <<clock, tocVars, geoVars, returned, fnVars>>

\* fetch, or res.text() after it, rejects (transport error): nothing catches
\* it on the way to the caller
FetchRejects_Retries(c) ==
    /\ calls[c].pc = "fetching"
    /\ calls' = [calls EXCEPT ![c].sent = @ + 1]
    /\ lastRequestTime' = clock
    /\ UNCHANGED <<clock, tocVars, geoVars, returned, fnVars>>

FetchRejects(c) ==
    /\ calls[c].pc = "fetching"
    /\ returned' = Returned(calls[c].op, calls[c].lang, "transport error", calls[c].sent, Null)
    /\ calls' = [calls EXCEPT ![c] = IdleFrame]
    /\ UNCHANGED <<clock, lastRequestTime, tocVars, geoVars, fnVars>>

\* an error path that invalidates the cache of the failed refresh
ResponseNotOk_DropsCache(c) ==
    /\ calls[c].pc = "fetching"
    /\ returned' = Returned(calls[c].op, calls[c].lang, "status error", calls[c].sent, Null)
    /\ calls' = [calls EXCEPT ![c] = IdleFrame]
    /\ IF calls[c].op = "searchDatasets"
       THEN cachedToc' = Null /\ tocCachedAt' = 0 /\ UNCHANGED geoVars
       ELSE cachedGeoCodes' = Null /\ geoCodesCachedAt' = 0 /\ UNCHANGED tocVars
    /\ UNCHANGED <<clock, lastRequestTime, fnVars>>

\* the response has a non-2xx status: fetchToc and resolveGeoCode throw
ResponseNotOk(c) ==
    /\ calls[c].pc = "fetching"
    /\ returned' = Returned(calls[c].op, calls[c].lang, "status error", calls[c].sent, Null)
    /\ calls' = [calls EXCEPT ![c] = IdleFrame]
    /\ UNCHANGED <<clock, lastRequestTime, tocVars, geoVars, fnVars>>

\* a refresh that publishes the list while it is being filled: the cache
\* holds the entries pushed so far
TocTextArrives_Partial(c, text) ==
    /\ calls[c].pc = "fetching"
    /\ calls[c].op = "searchDatasets"
    /\ text \in TocResponses(calls[c].lang)
    /\ LET entries == ParseToc(text) IN
       /\ cachedToc' = Some(SubSeq(entries, 1, Min(1, Len(entries))))
       /\ tocCachedAt' = calls[c].now
       /\ returned' = Returned("searchDatasets", calls[c].lang, "value", calls[c].sent,
                          Some(searchDatasets(entries, calls[c].query, DEFAULT_LIMIT)))
    /\ calls' = [calls EXCEPT ![c] = IdleFrame]
    /\ UNCHANGED <<clock, lastRequestTime, geoVars, fnVars>>

\* The response is ok and its body arrives.  (Between `await fetch` and
\* `await res.text()` the call reads and writes nothing, so the two awaits
\* are one step.)  fetchToc from `const text = await res.text()` to its
\* return, and the rest of searchDatasets, are one synchronous run.
TocTextArrives(c, text) ==
    /\ calls[c].pc = "fetching"
    /\ calls[c].op = "searchDatasets"
    /\ text \in TocResponses(calls[c].lang)
    /\ LET entries == ParseToc(text) IN
       /\ cachedToc' = Some(entries)
       /\ tocCachedAt' = calls[c].now
       /\ returned' = Returned("searchDatasets", calls[c].lang, "value", calls[c].sent,
                          Some(searchDatasets(entries, calls[c].query, DEFAULT_LIMIT)))
    /\ calls' = [calls EXCEPT ![c] = IdleFrame]
    /\ UNCHANGED <<clock, lastRequestTime, geoVars, fnVars>>

\* the same for resolveGeoCode, from `const xml = await res.text()` on
GeoTextArrives(c, xml) ==
    /\ calls[c].pc = "fetching"
    /\ calls[c].op = "resolveGeoCode"
    /\ xml \in GeoResponses
    /\ LET codes == ParseGeo(xml) IN
       /\ cachedGeoCodes' = Some(codes)
       /\ geoCodesCachedAt' = calls[c].now
       /\ returned' = Returned("resolveGeoCode", "none", "value", calls[c].sent,
                          Some(resolveFromCache(codes, calls[c].query)))
    /\ calls' = [calls EXCEPT ![c] = IdleFrame]
    /\ UNCHANGED <<clock, lastRequestTime, tocVars, fnVars>>

\* Time passes.  A timer fires when it is due: the clock does not run past
\* a pending timer.  No call stays in progress for the whole cache duration:
\* the hour passes between calls.
TickSteps == {MIN_REQUEST_INTERVAL_MS \div 2, MIN_REQUEST_INTERVAL_MS, TOC_CACHE_DURATION_MS}

Tick(d) ==
    LET dues   == {calls[c].due : c \in {k \in Calls : calls[k].pc = "waiting"}}
        target == IF \E t \in dues : t < clock + d
                  THEN CHOOSE t \in dues : \A u \in dues : t <= u
                  ELSE clock + d
    IN  /\ target > clock
        /\ d = TOC_CACHE_DURATION_MS => \A c \in Calls : calls[c].pc = "idle"
        /\ target <= StartTime + TOC_CACHE_DURATION_MS + SlackAfter
        /\ \/ target <= StartTime + Slack
           \/ target >= StartTime + TOC_CACHE_DURATION_MS
        /\ clock' = target
        /\ UNCHANGED <<lastRequestTime, tocVars, geoVars, calls, returned, fnVars>>

MachineInit ==
    /\ clock = StartTime
    /\ lastRequestTime = 0
    /\ cachedToc = Null
    /\ tocCachedAt = 0
    /\ cachedGeoCodes = Null
    /\ geoCodesCachedAt = 0
    /\ calls = [c \in Calls |-> IdleFrame]
    /\ returned = NoReturn

Init ==
    /\ MachineInit
    /\ fn = "none"
    /\ args = <<>>
    /\ ret = Null

Next ==
    \/ \E c \in Calls, lang \in Langs, query \in SearchQueries : SearchStart(c, lang, query)
    \/ \E c \in Calls, query \in GeoQueries : ResolveStart(c, query)
    \/ \E c \in Calls : TimerFires(c)
    \/ \E c \in Calls : FetchRejects(c)
    \/ \E c \in Calls : ResponseNotOk(c)
    \/ \E c \in Calls, text \in TocResponses("en") \cup TocResponses("fr") : TocTextArrives(c, text)
    \/ \E c \in Calls, xml \in GeoResponses : GeoTextArrives(c, xml)
    \/ \E d \in TickSteps : Tick(d)

Spec == Init /\ [][Next]_vars

----------------------------------------------------------------------------
(* Claims about the rate limiter and the caches, under Spec *)

\* call c dispatches its HTTP request in this step
Dispatches(c) == calls[c].pc # "fetching" /\ calls'[c].pc = "fetching"

\* call c ends with an error in this step
Fails(c) == calls[c].pc # "idle" /\ calls'[c].pc = "idle" /\ returned'.outcome # "value"

\* call c, a call of op, ends in this step by storing a parsed response
Stores(c, op) ==
    /\ calls[c].pc = "fetching" /\ calls[c].op = op
    /\ calls'[c].pc = "idle" /\ returned'.outcome = "value"

\* C1: any two HTTP dispatches are at least 350 ms apart, under every
\* interleaving of calls to rateLimitedFetch.  (lastRequestTime is the time
\* of the dispatch before this one.)
C1_DispatchesSpaced ==
    [][\A c \in Calls :
          Dispatches(c) => clock' - lastRequestTime >= MIN_REQUEST_INTERVAL_MS]_vars

\* C2: a searchDatasets call made while the cached catalogue is younger than
\* the cache duration dispatches no catalogue fetch (it is answered from the
\* cache), and no call made when the cached catalogue is older than the
\* cache duration is answered without a fetch.
C2_TocCacheFreshness ==
    [][/\ \A c \in Calls :
            (calls[c].pc = "idle" /\ calls'[c].op = "searchDatasets")
                => ~(cachedToc # Null /\ clock - tocCachedAt < TOC_CACHE_DURATION_MS)
       /\ (returned' # returned /\ returned'.op = "searchDatasets" /\ returned'.sent = 0)
            => (cachedToc # Null /\ ~(clock - tocCachedAt > TOC_CACHE_DURATION_MS))]_vars

\* a call was answered from the cache, and a later call, made once the
\* cached catalogue has expired, is fetching
C2_Witness ==
    /\ returned.op = "searchDatasets" /\ returned.outcome = "value" /\ returned.sent = 0
    /\ cachedToc # Null
    /\ \E c \in Calls :
          /\ calls[c].op = "searchDatasets" /\ calls[c].pc = "fetching"
          /\ calls[c].now - tocCachedAt >= TOC_CACHE_DURATION_MS

\* C3: a refresh that fails (transport error or non-2xx status) leaves both
\* caches and their timestamps as they were, and a cache changes only in a
\* step where a refresh of that cache succeeds.
C3_FailedRefreshKeepsCache ==
    [][/\ (\E c \in Calls : Fails(c)) => UNCHANGED <<tocVars, geoVars>>
       /\ tocVars' # tocVars => \E c \in Calls : Stores(c, "searchDatasets")
       /\ geoVars' # geoVars => \E c \in Calls : Stores(c, "resolveGeoCode")]_vars

\* a catalogue refresh has just failed on a non-2xx status while a snapshot
\* is cached
C3_Witness ==
    /\ returned.op = "searchDatasets" /\ returned.outcome = "status error"
    /\ returned.sent = 1
    /\ cachedToc # Null /\ Len(cachedToc[1]) > 0

\* each cache holds nothing or the complete parse of one response
CachesComplete ==
    /\ cachedToc = Null
       \/ \E lang \in Langs : \E text \in TocResponses(lang) : cachedToc[1] = ParseToc(text)
    /\ cachedGeoCodes = Null
       \/ \E xml \in GeoResponses : cachedGeoCodes[1] = ParseGeo(xml)

\* C4: in every reachable state each cache holds nothing or the complete
\* result of parsing one response, and a cached value changes only by being
\* replaced, in one step, by the complete parse of the response a refresh
\* received.
C4_AtomicSnapshots ==
    /\ []CachesComplete
    /\ [][/\ cachedToc' # cachedToc =>
                \E c \in Calls : \E text \in TocResponses(calls[c].lang) :
                    Stores(c, "searchDatasets") /\ cachedToc' = Some(ParseToc(text))
          /\ cachedGeoCodes' # cachedGeoCodes =>
                \E c \in Calls : \E xml \in GeoResponses :
                    Stores(c, "resolveGeoCode") /\ cachedGeoCodes' = Some(ParseGeo(xml))]_vars

\* a catalogue of two entries is cached while another refresh is under way
C4_Witness ==
    /\ cachedToc # Null /\ Len(cachedToc[1]) = 2
    /\ cachedGeoCodes # Null
    /\ \E c \in Calls : calls[c].op = "searchDatasets" /\ calls[c].pc = "fetching"

----------------------------------------------------------------------------
(* The catalogue parser on its own: every short text over a small alphabet *)

MaxTextLen == 6

ParseAlphabet == {"a", "\t", " ", "\n"}

ParseTexts == UNION {[1..n -> ParseAlphabet] : n \in 0..MaxTextLen}

InitParse ==
    /\ MachineInit
    /\ fn = "ParseToc"
    /\ args \in {<<text>> : text \in ParseTexts}
    /\ ret = Null

\* the parsing part of fetchToc runs on the text
ParseCall ==
    /\ fn = "ParseToc"
    /\ ret = Null
    /\ ret' = Some(ParseToc(args[1]))
    /\ UNCHANGED <<clock, lastRequestTime, tocVars, geoVars, calls, returned, fn, args>>

NextParse == ParseCall

SpecParse == InitParse /\ [][NextParse]_vars

\* the lines after the header that are not blank and have at least 2
\* tab-separated columns, by position in the text
WellFormedLines(lines) ==
    {i \in 2..Len(lines) : trim(lines[i]) # <<>> /\ Len(split(lines[i], TAB)) >= 2}

\* the k-th smallest element of a set of positions
KthOf(S, k) == CHOOSE i \in S : Cardinality({j \in S : j <= i}) = k

\* C7: parsing skips the header line and yields exactly one entry, with its
\* title from the first and its code from the second column, for every
\* later non-blank line with at least 2 tab-separated columns, and none for
\* any other line.  (Columns are compared up to surrounding white space.)
C7_OneEntryPerWellFormedLine ==
    (fn = "ParseToc" /\ ret # Null) =>
        LET lines   == split(args[1], NL)
            good    == WellFormedLines(lines)
            entries == ret[1]
        IN  /\ Len(entries) = Cardinality(good)
            /\ \A k \in 1..Len(entries) :
                  LET cols == split(lines[KthOf(good, k)], TAB) IN
                  /\ trim(entries[k].title) = trim(cols[1])
                  /\ trim(entries[k].code) = trim(cols[2])

----------------------------------------------------------------------------
(* searchDatasets on its own: small catalogues, queries and limits *)

MaxCatalog == 3

MaxLimit == 3

SearchTitles == {<<"a">>, <<"a", " ", "b">>, <<"x">>}

SearchCodes == {<<"X">>, <<"a", " ", "b">>}

SearchEntries == {TocEntryOf(<<t, c>>) : t \in SearchTitles, c \in SearchCodes}

SearchCatalogs == UNION {[1..n -> SearchEntries] : n \in 0..MaxCatalog}

FnQueries == {<<"x">>, <<"A", " ", "b">>, <<"a", " ", " ", "b">>, <<"b">>, <<>>}

SearchLimits == (-2)..MaxLimit

InitSearch ==
    /\ MachineInit
    /\ fn = "searchDatasets"
    /\ args \in {<<toc, query, limit>> :
                    toc \in SearchCatalogs, query \in FnQueries, limit \in SearchLimits}
    /\ ret = Null

\* searchDatasets after `await fetchToc(lang)` has given toc; ranking holds
\* the catalogue positions of the returned entries
SearchCall ==
    /\ fn = "searchDatasets"
    /\ ret = Null
    /\ ret' = Some([entries |-> searchDatasets(args[1], args[2], args[3]),
                    ranking |-> SearchRanking(args[1], args[2], args[3])])
    /\ UNCHANGED <<clock, lastRequestTime, tocVars, geoVars, calls, returned, fn, args>>

NextSearch == SearchCall

SpecSearch == InitSearch /\ [][NextSearch]_vars

\* position of catalogue index i in the ranking (0 when it is not returned)
RankOf(ranking, i) ==
    IF \E k \in 1..Len(ranking) : ranking[k] = i
    THEN CHOOSE k \in 1..Len(ranking) : ranking[k] = i
    ELSE 0

IsExactMatch(entry, query) == toLowerCase(entry.code) = toLowerCase(query)

\* the entry matches through at least one term, and is no exact code match
IsTermOnlyMatch(entry, query) ==
    /\ ~IsExactMatch(entry, query)
    /\ \E k \in 1..Len(splitWhitespace(toLowerCase(query))) :
          includes(toLowerCase(entry.title \o <<" ">> \o entry.code),
                   splitWhitespace(toLowerCase(query))[k])

\* C5: when the query equals the code of an entry (case-insensitively),
\* every returned entry that matched only through term hits comes after
\* that entry, which is then returned too.
C5_ExactCodeRanksFirst ==
    (fn = "searchDatasets" /\ ret # Null) =>
        LET toc == args[1]
            query == args[2]
            ranking == ret[1].ranking
        IN  \A i, j \in 1..Len(toc) :
                (IsExactMatch(toc[i], query) /\ IsTermOnlyMatch(toc[j], query)
                    /\ RankOf(ranking, j) > 0)
                => (RankOf(ranking, i) > 0 /\ RankOf(ranking, i) < RankOf(ranking, j))

\* a two-term query equal to the code of the last entry; an earlier entry
\* matching both terms by its title is returned after it
C5_Witness ==
    /\ fn = "searchDatasets" /\ ret # Null
    /\ Len(splitWhitespace(toLowerCase(args[2]))) = 2
    /\ \E i, j \in 1..Len(args[1]) :
          /\ j < i
          /\ IsExactMatch(args[1][i], args[2])
          /\ IsTermOnlyMatch(args[1][j], args[2])
          /\ Score(args[1][j], args[2]) = 2
          /\ RankOf(ret[1].ranking, i) = 1
          /\ RankOf(ret[1].ranking, j) = 2

\* the result holds only entries that score, by non-increasing score, equal
\* scores in catalogue order
RankedAndFiltered(toc, query, ranking) ==
    /\ \A k \in 1..Len(ranking) : Score(toc[ranking[k]], query) > 0
    /\ \A k \in 1..(Len(ranking) - 1) :
          \/ Score(toc[ranking[k]], query) > Score(toc[ranking[k + 1]], query)
          \/ /\ Score(toc[ranking[k]], query) = Score(toc[ranking[k + 1]], query)
             /\ ranking[k] < ranking[k + 1]

\* C6: the result holds only scoring entries, by non-increasing score with
\* equal scores in catalogue order, and at most `limit` of them, for every
\* limit the function accepts (a limit below 0 allowing no entry)
C6_AtMostLimit_AnyLimit ==
    (fn = "searchDatasets" /\ ret # Null) =>
        /\ RankedAndFiltered(args[1], args[2], ret[1].ranking)
        /\ Len(ret[1].ranking) <= Max(args[3], 0)

----------------------------------------------------------------------------
(* getDatasetData: decoding a JSON-stat response *)

\* A response body `json` is a record
\*   id        the dimension ids, in order          (json.id || [])
\*   size      the declared sizes, in order         (json.size || [])
\*   dimension dimension id -> dimension object     (json.dimension || {})
\*   value     the sparse values: cell -> number    (json.value || {})
\* A dimension object has label (dim.label), index (category.index, as the
\* list Object.entries gives: pairs <<category id, position>>) and labels
\* (category.label: category id -> label).  A cell of the dense array is an
\* optional number: Null, or Some(v).

\* Array.prototype.sort with (a, b) => a[1] - b[1] on the entries: stable
RECURSIVE InsertByIndex(_, _)
InsertByIndex(sorted, e) ==
    IF sorted = <<>> THEN <<e>>
    ELSE IF Head(sorted)[2] <= e[2]
         THEN <<Head(sorted)>> \o InsertByIndex(Tail(sorted), e)
         ELSE <<e>> \o sorted

RECURSIVE SortByIndex(_)
SortByIndex(entries) ==
    IF entries = <<>> THEN <<>>
    ELSE InsertByIndex(SortByIndex(SubSeq(entries, 1, Len(entries) - 1)),
                       entries[Len(entries)])

\* a label that is always the key
CategoryLabel_Key(labels, catId) == catId

\* labelMap[catId] || catId
CategoryLabel(labels, catId) ==
    IF catId \in DOMAIN labels /\ labels[catId] # "" THEN labels[catId] ELSE catId

\* the callback of dimIds.map: dimensionsData[dimId] || {} and so on
DimensionOf(json, dimId) ==
    IF dimId \in DOMAIN json.dimension
    THEN LET dim    == json.dimension[dimId]
             sorted == SortByIndex(dim.index)
         IN  [id    |-> dimId,
              label |-> IF dim.label # "" THEN dim.label ELSE dimId,
              categories |->
                  [k \in 1..Len(sorted) |->
                      [id |-> sorted[k][1], label |-> CategoryLabel(dim.labels, sorted[k][1])]]]
    ELSE [id |-> dimId, label |-> dimId, categories |-> <<>>]

\* a total computed by adding the sizes
RECURSIVE TotalSize_Sum(_)
TotalSize_Sum(sizes) == IF sizes = <<>> THEN 0 ELSE Head(sizes) + TotalSize_Sum(Tail(sizes))

\* dimSizes.reduce((a, b) => a * b, 1)
RECURSIVE TotalSize(_)
TotalSize(sizes) == IF sizes = <<>> THEN 1 ELSE Head(sizes) * TotalSize(Tail(sizes))

\* a cell test by truthiness: rawValues[i] ? rawValues[i] : null
DenseCell_Truthy(rawValues, i) ==
    IF i \in DOMAIN rawValues /\ rawValues[i] # 0 THEN Some(rawValues[i]) ELSE Null

\* rawValues[String(i)] !== undefined ? rawValues[String(i)] : null
DenseCell(rawValues, i) ==
    IF i \in DOMAIN rawValues THEN Some(rawValues[i]) ELSE Null

\* the loop that pushes totalSize cells (cell i is element i + 1)
Densify(rawValues, totalSize) == [k \in 1..totalSize |-> DenseCell(rawValues, k - 1)]

\* an index that is NaN in the code (a size that is undefined or 0)
NaNIndex == -1

\* the indices appended with push where the code prepends them with unshift
RECURSIVE DecodeIndices_Push(_, _, _)
DecodeIndices_Push(remainder, sizes, d) ==
    IF d = 0 THEN <<>>
    ELSE IF remainder = NaNIndex \/ d > Len(sizes) \/ sizes[d] = 0
         THEN <<NaNIndex>> \o DecodeIndices_Push(NaNIndex, sizes, d - 1)
         ELSE <<remainder % sizes[d]>>
              \o DecodeIndices_Push(remainder \div sizes[d], sizes, d - 1)

\* the loop `for (let d = dimensions.length - 1; d >= 0; d--)`: the indices
\* of dimensions 1..d for what is left of the cell number
RECURSIVE DecodeIndices(_, _, _)
DecodeIndices(remainder, sizes, d) ==
    IF d = 0 THEN <<>>
    ELSE IF remainder = NaNIndex \/ d > Len(sizes) \/ sizes[d] = 0
         THEN DecodeIndices(NaNIndex, sizes, d - 1) \o <<NaNIndex>>
         ELSE DecodeIndices(remainder \div sizes[d], sizes, d - 1)
              \o <<remainder % sizes[d]>>

\* the category id where the code takes the label
LabelAt_Id(dimension, idx) ==
    IF idx # NaNIndex /\ idx + 1 <= Len(dimension.categories)
    THEN dimension.categories[idx + 1].id
    ELSE IF idx = NaNIndex THEN "[NaN]" ELSE "[" \o ToString(idx) \o "]"

\* Array.prototype.join on strings
RECURSIVE join(_, _)
join(strings, sep) ==
    IF strings = <<>> THEN ""
    ELSE IF Len(strings) = 1 THEN strings[1]
    ELSE strings[1] \o sep \o join(Tail(strings), sep)

\* cat ? cat.label : `[${idx}]`
LabelAt(dimension, idx) ==
    IF idx # NaNIndex /\ idx + 1 <= Len(dimension.categories)
    THEN dimension.categories[idx + 1].label
    ELSE IF idx = NaNIndex THEN "[NaN]" ELSE "[" \o ToString(idx) \o "]"

\* the line pushed for cell i: the labels joined by " | ", then the value
\* (cell names the position the line was made for; it is not in the text)
RowOf(dimensions, sizes, values, i) ==
    LET indices == DecodeIndices(i, sizes, Len(dimensions))
        labels  == [d \in 1..Len(dimensions) |-> LabelAt(dimensions[d], indices[d])]
    IN  [cell   |-> i,
         labels |-> labels,
         value  |-> values[i + 1][1],
         text   |-> join(labels, " | ") \o " | " \o ToString(values[i + 1][1])]

RECURSIVE RowsFrom(_, _, _, _)
RowsFrom(dimensions, sizes, values, i) ==
    IF i >= Len(values) THEN <<>>
    ELSE (IF values[i + 1] = Null THEN <<>> ELSE <<RowOf(dimensions, sizes, values, i)>>)
         \o RowsFrom(dimensions, sizes, values, i + 1)

\* The table: text is "No data available." and there is no line, or header
\* holds the dimension labels (then "Value") and rows the lines after the rule.
formatJsonStatData(dimensions, sizes, values) ==
    IF Len(dimensions) = 0 \/ Len(values) = 0
    THEN [text |-> "No data available.", header |-> <<>>, rows |-> <<>>]
    ELSE [text   |-> "table",
          header |-> [d \in 1..Len(dimensions) |-> dimensions[d].label] \o <<"Value">>,
          rows   |-> RowsFrom(dimensions, sizes, values, 0)]

\* getDatasetData after `const json = await res.json()`
DecodeData(json) ==
    LET dimensions == [d \in 1..Len(json.id) |-> DimensionOf(json, json.id[d])]
        values     == Densify(json.value, TotalSize(json.size))
    IN  [dimensions    |-> dimensions,
         values        |-> values,
         formattedData |-> formatJsonStatData(dimensions, json.size, values)]

----------------------------------------------------------------------------
(* The decoder on its own: small responses, consistent or not *)

MaxDims == 2

MaxSize == 3

MaxKey == 3

\* the dimension objects a response carries; "unit" is declared in json.id
\* but has no object
DimensionData ==
    [geo  |-> [label  |-> "Geo",
               index  |-> << <<"FR", 1>>, <<"DE", 0>> >>,
               labels |-> [DE |-> "Germany", FR |-> "France"]],
     time |-> [label  |-> "",
               index  |-> << <<"2020", 0>>, <<"2021", 1>>, <<"2022", 2>> >>,
               labels |-> [x \in {"2020", "2021"} |-> x]]]

DimIds == {"geo", "time", "unit"}

\* the value recorded at a cell, where one is recorded
ValueAt(i) == CASE i = 0 -> 100 [] i = 1 -> 0 [] i = 5 -> 142 [] OTHER -> i

ValueKeySets == SUBSET (0..MaxKey) \cup {{0, 5}}

\* one declared size per declared dimension; the sizes need not agree with
\* the index maps
DataShapes ==
    UNION {[1..n -> DimIds] \X [1..n -> 0..MaxSize] : n \in 0..MaxDims}

DataResponses ==
    {[id |-> shape[1], size |-> shape[2], dimension |-> DimensionData,
      value |-> [i \in keys |-> ValueAt(i)]] :
        shape \in DataShapes, keys \in ValueKeySets}

InitData ==
    /\ MachineInit
    /\ fn = "getDatasetData"
    /\ args \in {<<json>> : json \in DataResponses}
    /\ ret = Null

DataCall ==
    /\ fn = "getDatasetData"
    /\ ret = Null
    /\ ret' = Some(DecodeData(args[1]))
    /\ UNCHANGED <<clock, lastRequestTime, tocVars, geoVars, calls, returned, fn, args>>

NextData == DataCall

SpecData == InitData /\ [][NextData]_vars

\* the product of the category counts of the returned dimensions
RECURSIVE CategoryProduct(_)
CategoryProduct(dimensions) ==
    IF dimensions = <<>> THEN 1
    ELSE Len(Head(dimensions).categories) * CategoryProduct(Tail(dimensions))

\* the response declares one size per dimension, each the number of keys of
\* that dimension's index map
ConsistentSizes(json) ==
    /\ Len(json.size) = Len(json.id)
    /\ \A d \in 1..Len(json.id) :
          json.size[d] = IF json.id[d] \in DOMAIN json.dimension
                         THEN Len(json.dimension[json.id[d]].index) ELSE 0

\* C8 as stated: the length of values is the product of the category counts
\* of the returned dimensions, for every result
C8_LengthIsCategoryProduct ==
    (fn = "getDatasetData" /\ ret # Null) =>
        Len(ret[1].values) = CategoryProduct(ret[1].dimensions)

\* C8, amended: the length of values is the product of the sizes the
\* response declares, and so the product of the category counts whenever the
\* response declares, for each dimension, the number of keys of its index map
C8_LengthIsDeclaredProduct ==
    (fn = "getDatasetData" /\ ret # Null) =>
        /\ Len(ret[1].values) = TotalSize(args[1].size)
        /\ ConsistentSizes(args[1]) =>
              Len(ret[1].values) = CategoryProduct(ret[1].dimensions)

\* geo (2 categories) by time (3 categories), declared as 2 by 3
C8_Witness ==
    /\ fn = "getDatasetData" /\ ret # Null
    /\ args[1].id = <<"geo", "time">> /\ args[1].size = <<2, 3>>
    /\ Len(ret[1].values) = 6

\* C9: cell i of the dense array, for every i below the product of the
\* sizes, is absent when the sparse map has no key i and is the map's value
\* when it has one; a recorded 0 stays 0 and no absent cell becomes 0.
C9_Densification ==
    (fn = "getDatasetData" /\ ret # Null) =>
        LET raw == args[1].value
            values == ret[1].values
        IN  /\ Len(values) = TotalSize(args[1].size)
            /\ \A i \in 0..(TotalSize(args[1].size) - 1) :
                  /\ i \notin DOMAIN raw => values[i + 1] = Null
                  /\ i \in DOMAIN raw => values[i + 1] = <<raw[i]>>

\* a gap at cell 0 and a recorded 0 at cell 1
C9_Witness ==
    /\ fn = "getDatasetData" /\ ret # Null
    /\ Len(ret[1].values) >= 3
    /\ 0 \notin DOMAIN args[1].value /\ ret[1].values[1] = Null
    /\ 1 \in DOMAIN args[1].value /\ ret[1].values[2] = <<0>>

\* C10: in the table no cell with an absent value has a row, and every cell
\* with a present value has exactly one row, for every cube
C10_RowsArePresentCells ==
    (fn = "getDatasetData" /\ ret # Null) =>
        LET values == ret[1].values
            rows == ret[1].formattedData.rows
        IN  \A i \in 0..(Len(values) - 1) :
                Cardinality({k \in 1..Len(rows) : rows[k].cell = i})
                    = IF values[i + 1] = Null THEN 0 ELSE 1

----------------------------------------------------------------------------
(* The index decoding of the renderer on its own: a vector of positive sizes
   and a cell number below their product *)

MaxRank == 3

MaxRadix == 3

SizeVectors == UNION {[1..n -> 1..MaxRadix] : n \in 0..MaxRank}

InitIndex ==
    /\ MachineInit
    /\ fn = "decodeIndices"
    /\ args \in {<<i, sizes>> : i \in 0..(MaxRadix * MaxRadix * MaxRadix * MaxRadix - 1),
                                sizes \in SizeVectors}
    /\ args[1] < TotalSize(args[2])
    /\ ret = Null

\* lines 377-382 for cell i of a cube with one dimension per size
IndexCall ==
    /\ fn = "decodeIndices"
    /\ ret = Null
    /\ ret' = Some(DecodeIndices(args[1], args[2], Len(args[2])))
    /\ UNCHANGED <<clock, lastRequestTime, tocVars, geoVars, calls, returned, fn, args>>

NextIndex == IndexCall

SpecIndex == InitIndex /\ [][NextIndex]_vars

\* the product of sizes[from..Len(sizes)]
RECURSIVE Stride(_, _)
Stride(sizes, from) ==
    IF from > Len(sizes) THEN 1 ELSE sizes[from] * Stride(sizes, from + 1)

\* the sum over d >= from of indices[d] times the product of sizes[d+1..]
RECURSIVE Encode(_, _, _)
Encode(indices, sizes, from) ==
    IF from > Len(indices) THEN 0
    ELSE indices[from] * Stride(sizes, from + 1) + Encode(indices, sizes, from + 1)

\* C11: for positive sizes s and a cell number i below their product, the
\* decoded index of every dimension d lies in [0, s[d]) and the indices
\* re-encode to i
C11_IndexRoundTrip ==
    (fn = "decodeIndices" /\ ret # Null) =>
        LET i == args[1]
            sizes == args[2]
            indices == ret[1]
        IN  /\ Len(indices) = Len(sizes)
            /\ \A d \in 1..Len(sizes) : indices[d] >= 0 /\ indices[d] < sizes[d]
            /\ Encode(indices, sizes, 1) = i

\* cell 5 of a 2 by 3 cube decodes to (1, 2)
C11_Witness ==
    /\ fn = "decodeIndices" /\ ret # Null
    /\ args = <<5, <<2, 3>> >>
    /\ ret[1] = <<1, 2>>

----------------------------------------------------------------------------
(* Rendering, checked on the results of getDatasetData (SpecData) *)

\* the index of dimension d in cell i, the last dimension varying fastest
IndexOf(i, sizes, d) == (i \div Stride(sizes, d + 1)) % sizes[d]

\* the cube of the example: geo (DE, FR) by time (2020, 2021, 2022) with the
\* sparse values {0: 100, 5: 142}
IsExampleCube(json) ==
    /\ json.id = <<"geo", "time">>
    /\ json.size = <<2, 3>>
    /\ DOMAIN json.value = {0, 5}
    /\ json.value[0] = 100 /\ json.value[5] = 142

\* C12: the example cube gives the dense array [100, null, null, null, null,
\* 142] and exactly the two lines 'Germany | 2020 | 100' and
\* 'France | 2022 | 142'; in every table the line of cell i carries, for each
\* dimension, the label of the category at the index the cell has in that
\* dimension with the last dimension varying fastest, then the value
C12_LastDimensionFastest ==
    (fn = "getDatasetData" /\ ret # Null) =>
        LET json == args[1]
            dims == ret[1].dimensions
            values == ret[1].values
            rows == ret[1].formattedData.rows
        IN  /\ IsExampleCube(json) =>
                  /\ values = <<Some(100), Null, Null, Null, Null, Some(142)>>
                  /\ [k \in 1..Len(rows) |-> rows[k].text]
                        = <<"Germany | 2020 | 100", "France | 2022 | 142">>
            /\ \A k \in 1..Len(rows) :
                  LET r == rows[k] IN
                  /\ r.value = values[r.cell + 1][1]
                  /\ Len(r.labels) = Len(dims)
                  /\ r.text = join(r.labels \o <<ToString(r.value)>>, " | ")
                  /\ \A d \in 1..Len(dims) :
                        IndexOf(r.cell, json.size, d) < Len(dims[d].categories) =>
                            r.labels[d] =
                                dims[d].categories[IndexOf(r.cell, json.size, d) + 1].label

\* the example cube has been decoded and cell 5 is the line of France, 2022
C12_Witness ==
    /\ fn = "getDatasetData" /\ ret # Null
    /\ IsExampleCube(args[1])
    /\ Len(ret[1].formattedData.rows) = 2
    /\ ret[1].formattedData.rows[2].cell = 5
    /\ ret[1].formattedData.rows[2].labels = <<"France", "2022">>

----------------------------------------------------------------------------
(* getDatasetStructure: extracting dimensions and codelists from the SDMX
   document *)

STRUCTURE_VALUES_LIMIT == 200

\* The metadata document is a sequence of tags:
\*   [tag |-> "Dimension", id |-> s]       <s:Dimension id="s" ...>
\*   [tag |-> "EndDimension"]              </s:Dimension>
\*   [tag |-> "TimeDimension", id |-> s]   <s:TimeDimension id="s" ...>
\*   [tag |-> "LocalRepresentation"]       <s:LocalRepresentation>
\*   [tag |-> "Ref", id |-> s]             <Ref id="s" ... />
\*   [tag |-> "Codelist", id |-> s]        <s:Codelist id="s" ...>
\*   [tag |-> "EndCodelist"]               </s:Codelist>
\*   [tag |-> "Code", id |-> s]            <s:Code id="s" ...>
\*   [tag |-> "Concept", id |-> s]         <s:Concept id="s" ...>
\*   [tag |-> "Name", lang |-> l, text |-> s]   <c:Name xml:lang="l">s</c:Name>
\* A lazy [\s\S]*? between two parts of a pattern runs to the first later
\* tag that matches the next part, whatever lies between.
HasTag(t, name) == t.tag = name

IsTagWithId(t, name) == t.tag = name /\ t.id # <<>>

\* the position of the first tag from p on that is `name` (with an id where
\* withId), 0 when there is none
FirstTag(xml, p, name, withId) ==
    LET hit(i) == IF withId THEN IsTagWithId(xml[i], name) ELSE HasTag(xml[i], name) IN
    IF \E i \in p..Len(xml) : hit(i)
    THEN CHOOSE k \in p..Len(xml) : hit(k) /\ \A j \in p..(k - 1) : ~hit(j)
    ELSE 0

\* the position of the first English <c:Name> from p on, 0 when none
FirstEnName(xml, p) ==
    IF \E i \in p..Len(xml) : IsEnName(xml[i])
    THEN CHOOSE k \in p..Len(xml) : IsEnName(xml[k]) /\ \A j \in p..(k - 1) : ~IsEnName(xml[j])
    ELSE 0

\* Map.prototype.set on a list of <<key, value>> pairs in insertion order:
\* a key already present keeps its place and takes the new value
MapSet(map, key, value) ==
    IF \E i \in 1..Len(map) : map[i][1] = key
    THEN [i \in 1..Len(map) |-> IF map[i][1] = key THEN <<key, value>> ELSE map[i]]
    ELSE Append(map, <<key, value>>)

\* codelistMap.get(clId) || []
MapGetOrEmpty(map, key) ==
    IF \E i \in 1..Len(map) : map[i][1] = key
    THEN map[CHOOSE i \in 1..Len(map) : map[i][1] = key][2]
    ELSE <<>>

\* xml.match(/<c:Name xml:lang="en">([^<]+)<\/c:Name>/), else datasetCode
StructureTitle(xml, datasetCode) ==
    IF FirstEnName(xml, 1) = 0 THEN datasetCode ELSE xml[FirstEnName(xml, 1)].text

\* the while loop over dimRegex.exec(xml) from position p, filling
\* dimCodelistMap: <s:Dimension id>, then the first later
\* <s:LocalRepresentation>, then the first later <Ref id>
RECURSIVE DimCodelistMapFrom(_, _, _)
DimCodelistMapFrom(xml, p, map) ==
    LET d == FirstTag(xml, p, "Dimension", TRUE)
        l == IF d = 0 THEN 0 ELSE FirstTag(xml, d + 1, "LocalRepresentation", FALSE)
        r == IF l = 0 THEN 0 ELSE FirstTag(xml, l + 1, "Ref", TRUE)
    IN  IF r = 0 THEN map
        ELSE DimCodelistMapFrom(xml, r + 1, MapSet(map, xml[d].id, xml[r].id))

\* timeDimRegex.exec(xml): the id of the first <s:TimeDimension id>
TimeDimMatch(xml) ==
    IF FirstTag(xml, 1, "TimeDimension", TRUE) = 0 THEN Null
    ELSE Some(xml[FirstTag(xml, 1, "TimeDimension", TRUE)].id)

\* one codeRegex.exec(clContent) with lastIndex at position p: <s:Code id>,
\* then the first later English <c:Name>; lastIndex afterwards, 0 for no match
CodeScanNext(clContent, p) ==
    LET c == FirstTag(clContent, p, "Code", TRUE)
        n == IF c = 0 THEN 0 ELSE FirstEnName(clContent, c + 1)
    IN  IF n = 0 THEN 0 ELSE n + 1

\* lastIndex after k rounds of the loop from p, 0 once exec has returned null
\* (the rounds are taken by halves, which keeps the evaluation shallow)
RECURSIVE CodeScanAfter(_, _, _)
CodeScanAfter(clContent, p, k) ==
    IF p = 0 THEN 0
    ELSE IF k = 0 THEN p
    ELSE IF k = 1 THEN CodeScanNext(clContent, p)
    ELSE CodeScanAfter(clContent, CodeScanAfter(clContent, p, k \div 2), k - (k \div 2))

\* the codes pushed by the first k rounds of the while loop over
\* codeRegex.exec(clContent) from position p
RECURSIVE CodesFrom(_, _, _)
CodesFrom(clContent, p, k) ==
    IF p = 0 \/ k = 0 THEN <<>>
    ELSE IF k = 1
         THEN (IF CodeScanNext(clContent, p) = 0 THEN <<>>
               ELSE <<[id   |-> clContent[FirstTag(clContent, p, "Code", TRUE)].id,
                       name |-> clContent[CodeScanNext(clContent, p) - 1].text]>>)
    ELSE CodesFrom(clContent, p, k \div 2)
         \o CodesFrom(clContent, CodeScanAfter(clContent, p, k \div 2), k - (k \div 2))

\* the whole loop: it ends within Len(clContent) rounds
Codes(clContent) == CodesFrom(clContent, 1, Len(clContent))

\* the while loop over clRegex.exec(xml) from position p, filling codelistMap
RECURSIVE CodelistMapFrom(_, _, _)
CodelistMapFrom(xml, p, map) ==
    LET c == FirstTag(xml, p, "Codelist", TRUE)
        e == IF c = 0 THEN 0 ELSE FirstTag(xml, c + 1, "EndCodelist", FALSE)
    IN  IF e = 0 THEN map
        ELSE CodelistMapFrom(xml, e + 1,
                 MapSet(map, xml[c].id, Codes(SubSeq(xml, c + 1, e - 1))))

\* conceptRegex.exec(xml) with the "i" flag: the first <s:Concept> whose id
\* is dimId up to letter case and that an English name follows
ConceptName(xml, dimId) ==
    LET hit(i) == /\ xml[i].tag = "Concept"
                  /\ toLowerCase(xml[i].id) = toLowerCase(dimId)
                  /\ FirstEnName(xml, i + 1) # 0
    IN  IF \E i \in 1..Len(xml) : hit(i)
        THEN xml[FirstEnName(xml,
                 (CHOOSE k \in 1..Len(xml) : hit(k) /\ \A j \in 1..(k - 1) : ~hit(j)) + 1)].text
        ELSE dimId

\* values.slice(0, 200)
StructureValues(values) == slice0(values, STRUCTURE_VALUES_LIMIT)

\* the time marker pushed first instead of last
TimeMarker_First(dimensions, timeDimMatch) ==
    IF timeDimMatch = Null THEN dimensions
    ELSE <<[id |-> timeDimMatch[1], name |-> "Time period",
            values |-> <<[id |-> "hint", name |-> "time filter hint"]>>]>> \o dimensions

\* if (timeDimMatch) dimensions.push({...}): the name of the hint stands for
\* the fixed sentence of the code
TimeMarker(dimensions, timeDimMatch) ==
    IF timeDimMatch = Null THEN dimensions
    ELSE Append(dimensions,
                [id |-> timeDimMatch[1], name |-> "Time period",
                 values |-> <<[id |-> "hint", name |-> "time filter hint"]>>])

\* String.prototype.toUpperCase, on the characters of the model
UpperChar(ch) ==
    CASE ch = "a" -> "A"
      [] ch = "b" -> "B"
      [] ch = "c" -> "C"
      [] ch = "d" -> "D"
      [] ch = "e" -> "E"
      [] ch = "l" -> "L"
      [] ch = "o" -> "O"
      [] ch = "s" -> "S"
      [] ch = "t" -> "T"
      [] ch = "u" -> "U"
      [] ch = "x" -> "X"
      [] ch = "z" -> "Z"
      [] ch = "o_uml" -> "O_uml"
      [] OTHER -> ch

toUpperCase(s) == [i \in 1..Len(s) |-> UpperChar(s[i])]

\* getDatasetStructure after `const xml = await res.text()`
ParseStructure(xml, datasetCode) ==
    LET dimCodelistMap == DimCodelistMapFrom(xml, 1, <<>>)
        codelistMap    == CodelistMapFrom(xml, 1, <<>>)
        dimensions ==
            [k \in 1..Len(dimCodelistMap) |->
                [id     |-> dimCodelistMap[k][1],
                 name   |-> ConceptName(xml, dimCodelistMap[k][1]),
                 values |-> StructureValues(MapGetOrEmpty(codelistMap, dimCodelistMap[k][2]))]]
    IN  [datasetCode |-> toUpperCase(datasetCode),
         title       |-> StructureTitle(xml, datasetCode),
         dimensions  |-> TimeMarker(dimensions, TimeDimMatch(xml))]

----------------------------------------------------------------------------
(* The structure decoder on its own: documents made of dimension
   declarations, codelists and concepts *)

MaxDecl == 3

\* <s:Dimension id> with its concept reference and an enumerated local
\* representation that refers to codelist cl
CodedDimension(id, cl) ==
    <<[tag |-> "Dimension", id |-> id], [tag |-> "Ref", id |-> id],
      [tag |-> "LocalRepresentation"], [tag |-> "Ref", id |-> cl],
      [tag |-> "EndDimension"]>>

\* a dimension whose local representation is a text format, not a codelist
\* (the declarations of one document have different ids)
UncodedDimension(id) ==
    <<[tag |-> "Dimension", id |-> id], [tag |-> "Ref", id |-> id],
      [tag |-> "LocalRepresentation"], [tag |-> "EndDimension"]>>

TimeDimension ==
    <<[tag |-> "TimeDimension", id |-> <<"T">>], [tag |-> "Ref", id |-> <<"T">>],
      [tag |-> "LocalRepresentation"], [tag |-> "EndTimeDimension"]>>

Declarations ==
    {CodedDimension(<<"A">>, <<"L", "1">>), CodedDimension(<<"B">>, <<"L", "2">>),
     UncodedDimension(<<"C">>), TimeDimension}

RECURSIVE Flatten(_)
Flatten(seqs) == IF seqs = <<>> THEN <<>> ELSE Head(seqs) \o Flatten(Tail(seqs))

\* a code with an English name, after a name in another language
NamedCode(k) ==
    <<[tag |-> "Code", id |-> <<"c", ToString(k)>>],
      [tag |-> "Name", lang |-> "fr", text |-> <<"f">>],
      [tag |-> "Name", lang |-> "en", text |-> <<"n", ToString(k)>>]>>

\* NamedCode(1) to NamedCode(n), one after the other
NamedCodes(n) ==
    [i \in 1..(3 * n) |-> NamedCode(((i - 1) \div 3) + 1)[((i - 1) % 3) + 1]]

\* a code that has no English name
ForeignCode(k) ==
    <<[tag |-> "Code", id |-> <<"c", ToString(k)>>],
      [tag |-> "Name", lang |-> "fr", text |-> <<"f">>]>>

Codelist(id, codes) ==
    <<[tag |-> "Codelist", id |-> id]>> \o codes \o <<[tag |-> "EndCodelist"]>>

\* L1 with 2 codes, L1 with one code more than the limit, L2 whose first code
\* has no English name
Codelists ==
    {Codelist(<<"L", "1">>, NamedCode(1) \o NamedCode(2)),
     Codelist(<<"L", "1">>, NamedCodes(STRUCTURE_VALUES_LIMIT + 1)),
     Codelist(<<"L", "2">>, ForeignCode(1) \o NamedCode(2))}

\* no codelist, one, or two with different ids
CodelistSections ==
    {<<>>} \cup Codelists
    \cup {p[1] \o p[2] : p \in {q \in Codelists \X Codelists : q[1][1].id # q[2][1].id}}

ConceptSections ==
    {<<>>, <<[tag |-> "Concept", id |-> <<"a">>],
             [tag |-> "Name", lang |-> "en", text |-> <<"x">>]>>}

StructureDocuments ==
    {Flatten(decls) \o lists \o concepts :
        decls \in {f \in UNION {[1..n -> Declarations] : n \in 0..MaxDecl} :
                      \A i, j \in DOMAIN f : f[i] = f[j] => i = j},
        lists \in CodelistSections,
        concepts \in ConceptSections}

InitStructure ==
    /\ MachineInit
    /\ fn = "getDatasetStructure"
    /\ args \in {<<xml, <<"x">> >> : xml \in StructureDocuments}
    /\ ret = Null

StructureCall ==
    /\ fn = "getDatasetStructure"
    /\ ret = Null
    /\ ret' = Some(ParseStructure(args[1], args[2]))
    /\ UNCHANGED <<clock, lastRequestTime, tocVars, geoVars, calls, returned, fn, args>>

NextStructure == StructureCall

SpecStructure == InitStructure /\ [][NextStructure]_vars

\* what the document declares, read element by element: the position of the
\* end tag of the declaration that starts at d
EndOfDeclaration(xml, d) ==
    IF FirstTag(xml, d + 1, "EndDimension", FALSE) = 0 THEN Len(xml) + 1
    ELSE FirstTag(xml, d + 1, "EndDimension", FALSE)

\* the position of the codelist reference inside the local representation of
\* the declaration that starts at d, 0 when it has none
OwnCodelistRef(xml, d) ==
    LET e == EndOfDeclaration(xml, d)
        l == FirstTag(xml, d + 1, "LocalRepresentation", FALSE)
        r == IF l = 0 THEN 0 ELSE FirstTag(xml, l + 1, "Ref", TRUE)
    IN  IF l # 0 /\ l < e /\ r # 0 /\ r < e THEN r ELSE 0

\* the <<dimension id, codelist id>> of the codelist-backed declarations
\* from position p on, in document order
RECURSIVE CodelistBacked(_, _)
CodelistBacked(xml, p) ==
    LET d == FirstTag(xml, p, "Dimension", TRUE) IN
    IF d = 0 THEN <<>>
    ELSE (IF OwnCodelistRef(xml, d) = 0 THEN <<>>
          ELSE << <<xml[d].id, xml[OwnCodelistRef(xml, d)].id>> >>)
         \o CodelistBacked(xml, d + 1)

\* the codes of a codelist block that carry an English name of their own
\* (before the next code), in document order, as a function of position
OwnEnName(block, c) ==
    LET n == FirstEnName(block, c + 1)
        next == FirstTag(block, c + 1, "Code", FALSE)
    IN  IF n # 0 /\ (next = 0 \/ n < next) THEN n ELSE 0

\* the k-th code of the block that has an English name of its own is at
\* position c
IsKthNamedCode(block, c, k) ==
    /\ block[c].tag = "Code" /\ OwnEnName(block, c) # 0
    /\ Cardinality({j \in 1..c : block[j].tag = "Code" /\ OwnEnName(block, j) # 0}) = k

\* the block of the codelist named cl (the documents declare it at most once)
CodelistBlock(xml, cl) ==
    IF \E c \in 1..Len(xml) : xml[c].tag = "Codelist" /\ xml[c].id = cl
    THEN LET c == CHOOSE i \in 1..Len(xml) : xml[i].tag = "Codelist" /\ xml[i].id = cl
         IN  SubSeq(xml, c + 1, FirstTag(xml, c + 1, "EndCodelist", FALSE) - 1)
    ELSE <<>>

\* values is a prefix of the named codes of the block, in document order
IsPrefixOfCodelist(values, block) ==
    \A k \in 1..Len(values) :
        \E c \in 1..Len(block) :
            /\ IsKthNamedCode(block, c, k)
            /\ values[k] = [id |-> block[c].id, name |-> block[OwnEnName(block, c)].text]

HasTimeDimension(xml) == \E i \in 1..Len(xml) : xml[i].tag = "TimeDimension"

\* C13: the list holds the codelist-backed dimensions in the order of their
\* declarations, each with at most 200 codes that are a prefix of its
\* codelist in document order, then one time dimension with a single
\* placeholder code exactly when the document declares a time dimension
C13_StructureDimensions ==
    (fn = "getDatasetStructure" /\ ret # Null) =>
        LET xml == args[1]
            dims == ret[1].dimensions
            coded == CodelistBacked(xml, 1)
            n == Len(coded)
        IN  /\ Len(dims) = n + (IF HasTimeDimension(xml) THEN 1 ELSE 0)
            /\ \A k \in 1..n :
                  /\ dims[k].id = coded[k][1]
                  /\ Len(dims[k].values) <= STRUCTURE_VALUES_LIMIT
                  /\ IsPrefixOfCodelist(dims[k].values, CodelistBlock(xml, coded[k][2]))
            /\ HasTimeDimension(xml) =>
                  /\ dims[n + 1].id = <<"T">>
                  /\ Len(dims[n + 1].values) = 1

\* no match of clRegex in the document
NoRecognizableCodelist(xml) == CodelistMapFrom(xml, 1, <<>>) = <<>>

\* C14 as stated: for a document without any recognizable codelist the call
\* returns a result and its dimension list is empty
C14_NoCodelistNoDimensions ==
    (fn = "getDatasetStructure" /\ ret # Null /\ NoRecognizableCodelist(args[1])) =>
        ret[1].dimensions = <<>>

\* C14, amended: for a document without any recognizable codelist the call
\* returns a result in which every dimension taken from a declaration has
\* no code, followed by the time marker when a time dimension is declared;
\* the list is empty when the document declares no dimension and no time
\* dimension
C14_NoCodelistNoCodes ==
    (fn = "getDatasetStructure" /\ ret # Null /\ NoRecognizableCodelist(args[1])) =>
              LET xml == args[1]
                  dims == ret[1].dimensions
                  n == Len(dims) - (IF HasTimeDimension(xml) THEN 1 ELSE 0)
              IN  /\ n >= 0
                  /\ \A k \in 1..n : dims[k].values = <<>>
                  /\ HasTimeDimension(xml) =>
                        dims[n + 1].id = <<"T">> /\ Len(dims[n + 1].values) = 1
                  /\ (~HasTimeDimension(xml)
                      /\ ~\E i \in 1..Len(xml) : xml[i].tag = "Dimension") => dims = <<>>

\* no codelist in the document, one declared dimension listed without codes
C14_Witness ==
    /\ fn = "getDatasetStructure" /\ ret # Null
    /\ NoRecognizableCodelist(args[1])
    /\ Len(ret[1].dimensions) = 2
    /\ ret[1].dimensions[1].id = <<"A">> /\ ret[1].dimensions[1].values = <<>>
    /\ ret[1].dimensions[2].id = <<"T">>

----------------------------------------------------------------------------
(* getDatasetData: the error of a response that is not ok *)

ERROR_BODY_LIMIT == 500

\* String.prototype.substring(0, n)
substring0(str, n) == SubSeq(str, 1, Min(Max(n, 0), Len(str)))

\* What JSON.parse makes of a body is part of the body in the model:
\*   [t |-> "SyntaxError"]                          JSON.parse throws
\*   [t |-> "null"]                                 the body is the text null
\*   [t |-> "primitive"]                            a number, string or boolean
\*   [t |-> "object", error |-> l, warning |-> l]   an object or array; l is
\*       Some(label) for error.label / warning.label, Null where the member
\*       or its label is missing
\* errorJson.error?.label is truthy
LabelGiven(label) == label # Null /\ label[1] # <<>>

\* the raw body appended whole
ErrorPieces_Uncut(errorBody, parsed) ==
    IF parsed.t = "object"
    THEN (IF LabelGiven(parsed.error) THEN <<parsed.error[1]>> ELSE <<>>)
         \o (IF LabelGiven(parsed.warning) THEN <<parsed.warning[1]>> ELSE <<>>)
    ELSE IF parsed.t = "primitive" THEN <<>>
    ELSE IF errorBody # <<>> THEN <<errorBody>> ELSE <<>>

\* the pieces appended to errorMsg, each after ": " (lines 286-292): the
\* labels inside the try block; the cut body in the catch block, which runs
\* when JSON.parse throws and when errorJson is null (reading .error throws)
ErrorPieces(errorBody, parsed) ==
    IF parsed.t = "object"
    THEN (IF LabelGiven(parsed.error) THEN <<parsed.error[1]>> ELSE <<>>)
         \o (IF LabelGiven(parsed.warning) THEN <<parsed.warning[1]>> ELSE <<>>)
    ELSE IF parsed.t = "primitive" THEN <<>>
    ELSE IF errorBody # <<>> THEN <<substring0(errorBody, ERROR_BODY_LIMIT)>> ELSE <<>>

\* the Error thrown for a response that is not ok: the message is
\* "Eurostat API error " + status, then ": " + piece for every piece
\* (res.text().catch(() => "") makes the body empty when reading it fails)
DataError(res) ==
    LET errorBody == IF res.textRejects THEN <<>> ELSE res.body.text
        parsed == IF res.textRejects THEN [t |-> "SyntaxError"] ELSE res.body.parsed
    IN  [outcome |-> "error",
         prefix  |-> "Eurostat API error",
         status  |-> res.status,
         pieces  |-> ErrorPieces(errorBody, parsed)]

----------------------------------------------------------------------------
(* The error path on its own *)

MaxOver == 2

\* a body of n characters that is not JSON
PlainBody(n) == [text |-> [i \in 1..n |-> "h"], parsed |-> [t |-> "SyntaxError"]]

\* an object with or without labels, written as token-like characters
JsonBody(error, warning) ==
    [text |-> <<"{">> \o (IF error = Null THEN <<>> ELSE <<"error">> \o error[1])
              \o (IF warning = Null THEN <<>> ELSE <<"warning">> \o warning[1]) \o <<"}">>,
     parsed |-> [t |-> "object", error |-> error, warning |-> warning]]

ErrorLabels == {Null, Some(<<>>), Some(<<"E">>)}

WarningLabels == {Null, Some(<<"W">>)}

ErrorBodies ==
    {PlainBody(n) : n \in {0, 3} \cup ((ERROR_BODY_LIMIT - 1)..(ERROR_BODY_LIMIT + MaxOver))}
    \cup {JsonBody(e, w) : e \in ErrorLabels, w \in WarningLabels}
    \cup {[text |-> <<"n", "u", "l", "l">>, parsed |-> [t |-> "null"]],
          [text |-> <<"4", "2">>, parsed |-> [t |-> "primitive"]]}

ErrorStatuses == {400, 404, 413, 500, 503}

ErrorResponses ==
    {[status |-> st, body |-> b, textRejects |-> r] :
        st \in ErrorStatuses, b \in ErrorBodies, r \in BOOLEAN}

InitDataError ==
    /\ MachineInit
    /\ fn = "getDatasetData"
    /\ args \in {<<res>> : res \in ErrorResponses}
    /\ ret = Null

\* lines 283-294: the call ends by throwing; no cache is touched
DataErrorCall ==
    /\ fn = "getDatasetData"
    /\ ret = Null
    /\ ret' = Some(DataError(args[1]))
    /\ UNCHANGED <<clock, lastRequestTime, tocVars, geoVars, calls, returned, fn, args>>

NextDataError == DataErrorCall

SpecDataError == InitDataError /\ [][NextDataError]_vars

\* C15: for a response that is not ok the call ends in an error whose
\* message carries the status code; when the body parses, the labels of its
\* error and warning members; when the body does not parse, the body cut to
\* at most 500 characters; no result is returned and no cache changes
C15_DataErrorMessage ==
    (fn = "getDatasetData" /\ ret # Null) =>
        LET res == args[1]
            err == ret[1]
            body == IF res.textRejects THEN <<>> ELSE res.body.text
            parsed == IF res.textRejects THEN [t |-> "SyntaxError"] ELSE res.body.parsed
        IN  /\ err.outcome = "error"
            /\ err.status = res.status
            /\ parsed.t = "object" =>
                  /\ LabelGiven(parsed.error) =>
                        \E k \in 1..Len(err.pieces) : err.pieces[k] = parsed.error[1]
                  /\ LabelGiven(parsed.warning) =>
                        \E k \in 1..Len(err.pieces) : err.pieces[k] = parsed.warning[1]
                  /\ \A k \in 1..Len(err.pieces) :
                        \E l \in {parsed.error, parsed.warning} :
                            LabelGiven(l) /\ err.pieces[k] = l[1]
            /\ parsed.t = "SyntaxError" =>
                  /\ body # <<>> =>
                        /\ Len(err.pieces) = 1
                        /\ Len(err.pieces[1]) <= ERROR_BODY_LIMIT
                        /\ err.pieces[1] = SubSeq(body, 1, Len(err.pieces[1]))
                        /\ Len(body) <= ERROR_BODY_LIMIT => err.pieces[1] = body
                  /\ body = <<>> => err.pieces = <<>>
            /\ cachedToc = Null /\ cachedGeoCodes = Null
            /\ tocCachedAt = 0 /\ geoCodesCachedAt = 0

\* a body of more than 500 characters that is not JSON has been cut to 500
C15_Witness ==
    /\ fn = "getDatasetData" /\ ret # Null
    /\ ~args[1].textRejects
    /\ args[1].body.parsed.t = "SyntaxError"
    /\ Len(args[1].body.text) = ERROR_BODY_LIMIT + 1
    /\ Len(ret[1].pieces) = 1 /\ Len(ret[1].pieces[1]) = ERROR_BODY_LIMIT

----------------------------------------------------------------------------
(* The level of a geo code: a codelist of one code is parsed *)

MaxCodeLen == 6

GeoCodeAlphabet == {"E", "U", "A", "D"}

ExampleGeoCodes ==
    {<<"D", "E">>, <<"D", "E", "2">>, <<"D", "E", "2", "1">>, <<"D", "E", "2", "1", "2">>,
     <<"E", "U", "2", "7", "_", "2", "0", "2", "0">>}

GeoCodeTexts ==
    UNION {[1..n -> GeoCodeAlphabet] : n \in 1..MaxCodeLen} \cup ExampleGeoCodes

InitLevel ==
    /\ MachineInit
    /\ fn = "geoLevel"
    /\ args \in {<<code>> : code \in GeoCodeTexts}
    /\ ret = Null

\* lines 473-483 on a document with the one code args[1]
LevelCall ==
    /\ fn = "geoLevel"
    /\ ret = Null
    /\ ret' = Some(ParseGeo(<<[tag |-> "Code", id |-> args[1]],
                              [tag |-> "Name", lang |-> "en", text |-> <<"n">>]>>))
    /\ UNCHANGED <<clock, lastRequestTime, tocVars, geoVars, calls, returned, fn, args>>

NextLevel == LevelCall

SpecLevel == InitLevel /\ [][NextLevel]_vars

StartsWithAggregatePrefix(code) ==
    /\ Len(code) >= 2
    /\ code[1] = "E"
    /\ code[2] \in {"U", "A"}

\* C16: the level of a parsed code depends on its text alone: length 2 is
\* country, 3 nuts1, 4 nuts2, 5 nuts3; any other length is aggregate when
\* the code starts with EU or EA and other when it does not; so DE, DE2,
\* DE21, DE212, EU27_2020 are country, nuts1, nuts2, nuts3, aggregate
C16_GeoLevel ==
    (fn = "geoLevel" /\ ret # Null) =>
        LET code == args[1]
            parsed == ret[1]
        IN  /\ Len(parsed) = 1
            /\ parsed[1].code = code
            /\ Len(code) = 2 => parsed[1].level = "country"
            /\ Len(code) = 3 => parsed[1].level = "nuts1"
            /\ Len(code) = 4 => parsed[1].level = "nuts2"
            /\ Len(code) = 5 => parsed[1].level = "nuts3"
            /\ (Len(code) \notin 2..5 /\ StartsWithAggregatePrefix(code)) =>
                  parsed[1].level = "aggregate"
            /\ (Len(code) \notin 2..5 /\ ~StartsWithAggregatePrefix(code)) =>
                  parsed[1].level = "other"
            /\ code = <<"D", "E">> => parsed[1].level = "country"
            /\ code = <<"D", "E", "2">> => parsed[1].level = "nuts1"
            /\ code = <<"D", "E", "2", "1">> => parsed[1].level = "nuts2"
            /\ code = <<"D", "E", "2", "1", "2">> => parsed[1].level = "nuts3"
            /\ code = <<"E", "U", "2", "7", "_", "2", "0", "2", "0">> =>
                  parsed[1].level = "aggregate"

\* EU27_2020 has been parsed as an aggregate
C16_Witness ==
    /\ fn = "geoLevel" /\ ret # Null
    /\ args[1] = <<"E", "U", "2", "7", "_", "2", "0", "2", "0">>
    /\ ret[1][1].level = "aggregate"

----------------------------------------------------------------------------
(* Matching against a cached geo list *)

MaxGeoLen == 44

MaxPeriod == 3

\* entry i of a cached list: every period-th entry matches no query of the
\* model, the others take turns: code AT, a name containing "os", a name
\* containing o-umlaut then "s"
GeoEntry(i, period) ==
    IF i % period = 0
    THEN [code |-> <<"Z", ToString(i)>>, name |-> <<"z", ToString(i)>>, level |-> "other"]
    ELSE IF i % 3 = 0
    THEN [code |-> <<"A", "T">>, name |-> <<"z", ToString(i)>>, level |-> "country"]
    ELSE IF i % 3 = 1
    THEN [code |-> <<"Z", ToString(i)>>, name |-> <<"O", "s", ToString(i)>>, level |-> "other"]
    ELSE [code |-> <<"Z", ToString(i)>>, name |-> <<"O_uml", "s", ToString(i)>>, level |-> "other"]

CachedGeoLists ==
    {[i \in 1..n |-> GeoEntry(i, period)] : n \in 0..MaxGeoLen, period \in 2..(MaxPeriod + 1)}

ResolveQueries == {<<>>, <<"a", "t">>, <<"O", "s">>, <<"o_uml", "S">>, <<"q">>}

InitResolve ==
    /\ MachineInit
    /\ fn = "resolveGeoCode"
    /\ args \in {<<codes, query>> : codes \in CachedGeoLists, query \in ResolveQueries}
    /\ ret = Null

\* lines 490-500 on the cached list args[1]
ResolveCall ==
    /\ fn = "resolveGeoCode"
    /\ ret = Null
    /\ ret' = Some(resolveFromCache(args[1], args[2]))
    /\ UNCHANGED <<clock, lastRequestTime, tocVars, geoVars, calls, returned, fn, args>>

NextResolve == ResolveCall

SpecResolve == InitResolve /\ [][NextResolve]_vars

\* the three ways an entry qualifies
CodeEquals(gc, query) == toLowerCase(gc.code) = toLowerCase(query)

NameContains(gc, query) == includes(toLowerCase(gc.name), toLowerCase(query))

StrippedNameContains(gc, query) ==
    includes(StripMarks(NFD(toLowerCase(gc.name))), StripMarks(NFD(toLowerCase(query))))

Qualifies(gc, query) ==
    CodeEquals(gc, query) \/ NameContains(gc, query) \/ StrippedNameContains(gc, query)

\* the positions of the cached list whose entry qualifies
QualifyingPositions(codes, query) == {i \in 1..Len(codes) : Qualifies(codes[i], query)}

\* the position of the k-th qualifying entry
KthQualifying(codes, query, k) ==
    CHOOSE i \in QualifyingPositions(codes, query) :
        Cardinality({j \in QualifyingPositions(codes, query) : j <= i}) = k

\* C17: the result is exactly the first 20 (or fewer) entries of the cached
\* list that qualify, in the order of the list
C17_FirstTwentyMatches ==
    (fn = "resolveGeoCode" /\ ret # Null) =>
        LET codes == args[1]
            query == args[2]
            results == ret[1]
            total == Cardinality(QualifyingPositions(codes, query))
        IN  /\ Len(results) = Min(total, GEO_RESULT_LIMIT)
            /\ \A k \in 1..Len(results) :
                  results[k] = codes[KthQualifying(codes, query, k)]

\* more than 20 entries qualify, among entries that do not, and 20 come back
C17_Witness ==
    /\ fn = "resolveGeoCode" /\ ret # Null
    /\ Cardinality(QualifyingPositions(args[1], args[2])) > GEO_RESULT_LIMIT
    /\ Cardinality(QualifyingPositions(args[1], args[2])) < Len(args[1])
    /\ Len(ret[1]) = GEO_RESULT_LIMIT

----------------------------------------------------------------------------
(* Names with diacritics against queries in base letters *)

MaxNameLen == 3

Osterreich == <<"O", "s", "t", "e", "r", "r", "e", "i", "c", "h">>

Oesterreich == <<"O_uml", "s", "t", "e", "r", "r", "e", "i", "c", "h">>

AccentedNames ==
    UNION {[1..n -> {"O_uml", "o_uml", "O", "s"}] : n \in 1..MaxNameLen} \cup {Oesterreich}

BaseLetterQueries ==
    UNION {[1..n -> {"o", "O", "s"}] : n \in 1..MaxNameLen} \cup {Osterreich}

\* a cached list of two entries: Germany, then an entry of the given name
ListWithName(name) ==
    <<[code |-> <<"D", "E">>, name |-> <<"G", "e", "r", "m", "a", "n", "y">>, level |-> "country"],
      [code |-> <<"A", "T">>, name |-> name, level |-> "country"]>>

InitDiacritics ==
    /\ MachineInit
    /\ fn = "resolveGeoCode"
    /\ args \in {<<ListWithName(name), query>> :
                    name \in AccentedNames, query \in BaseLetterQueries}
    /\ ret = Null

SpecDiacritics == InitDiacritics /\ [][NextResolve]_vars

\* the letter under a precomposed letter with a diacritic
BaseLetter(ch) ==
    CASE ch = "O_uml" -> "O"
      [] ch = "o_uml" -> "o"
      [] OTHER -> ch

\* name and query are equal letter for letter once the diacritics of the
\* name are dropped and the case is ignored; the query has no diacritic
DiffersByDiacriticsAndCase(name, query) ==
    /\ Len(name) = Len(query)
    /\ \A i \in 1..Len(query) :
          /\ BaseLetter(query[i]) = query[i]
          /\ LowerChar(BaseLetter(name[i])) = LowerChar(query[i])

\* C18: a query in base letters returns every cached entry whose name
\* differs from it only by diacritics and letter case; Osterreich returns
\* the entry named with O-umlaut
C18_DiacriticInsensitive ==
    (fn = "resolveGeoCode" /\ ret # Null) =>
        LET codes == args[1]
            query == args[2]
            results == ret[1]
        IN  /\ \A i \in 1..Len(codes) :
                  DiffersByDiacriticsAndCase(codes[i].name, query) =>
                      \E k \in 1..Len(results) : results[k] = codes[i]
            /\ (query = Osterreich /\ codes = ListWithName(Oesterreich)) =>
                  results = <<codes[2]>>

\* the query Osterreich has returned the entry named with O-umlaut
C18_Witness ==
    /\ fn = "resolveGeoCode" /\ ret # Null
    /\ args[2] = Osterreich
    /\ Len(ret[1]) = 1
    /\ ret[1][1].name = Oesterreich

----------------------------------------------------------------------------
(* The two caches side by side, under Spec *)

\* C20: at every cache age (an age of exactly one hour included) the geo
\* cache and the catalogue cache take the same decision, reuse or refetch,
\* and a successful refresh records the same kind of timestamp in both: the
\* time at which the refreshing call started
C20_SameTtlMechanism ==
    [][/\ cachedToc # Null =>
            (TocFreshAt(clock - tocCachedAt) <=> ~GeoStaleAt(clock - tocCachedAt))
       /\ cachedGeoCodes # Null =>
            (TocFreshAt(clock - geoCodesCachedAt) <=> ~GeoStaleAt(clock - geoCodesCachedAt))
       /\ \A c \in Calls :
            /\ Stores(c, "searchDatasets") => tocCachedAt' = calls[c].now
            /\ Stores(c, "resolveGeoCode") => geoCodesCachedAt' = calls[c].now]_vars

----------------------------------------------------------------------------
(* All five operations on the shared fetcher *)

\* a getDatasetStructure that answers a second call without a fetch
StructureStart_Cached(c) ==
    /\ FreeSlot(c)
    /\ IF returned.op = "getDatasetStructure" /\ returned.outcome = "value"
       THEN /\ returned' = [returned EXCEPT !.sent = 0]
            /\ UNCHANGED <<calls, lastRequestTime>>
       ELSE /\ RateLimitedFetch(c, "getDatasetStructure", "none", <<>>)
            /\ UNCHANGED returned
    /\ UNCHANGED <<clock, tocVars, geoVars, fnVars>>

\* getDatasetStructure(datasetCode) is called: it always fetches
StructureStart(c) ==
    /\ FreeSlot(c)
    /\ RateLimitedFetch(c, "getDatasetStructure", "none", <<>>)
    /\ UNCHANGED <<clock, tocVars, geoVars, returned, fnVars>>

\* getDatasetData(datasetCode, filters, lang) is called: it always fetches
DataStart(c) ==
    /\ FreeSlot(c)
    /\ RateLimitedFetch(c, "getDatasetData", "none", <<>>)
    /\ UNCHANGED <<clock, tocVars, geoVars, returned, fnVars>>

\* previewData(datasetCode, lang): getDatasetData with the filter
\* lastTimePeriod = 1, which only changes the URL
PreviewStart(c) ==
    /\ FreeSlot(c)
    /\ RateLimitedFetch(c, "previewData", "none", <<>>)
    /\ UNCHANGED <<clock, tocVars, geoVars, returned, fnVars>>

\* the structure document of an ok response arrives and is parsed
StructureTextArrives(c, xml) ==
    /\ calls[c].pc = "fetching"
    /\ calls[c].op = "getDatasetStructure"
    /\ returned' = Returned("getDatasetStructure", "none", "value", calls[c].sent,
                       Some(ParseStructure(xml, <<"x">>)))
    /\ calls' = [calls EXCEPT ![c] = IdleFrame]
    /\ UNCHANGED <<clock, lastRequestTime, tocVars, geoVars, fnVars>>

\* the JSON of an ok data response arrives and is decoded
DataJsonArrives(c, json) ==
    /\ calls[c].pc = "fetching"
    /\ calls[c].op \in {"getDatasetData", "previewData"}
    /\ returned' = Returned(calls[c].op, "none", "value", calls[c].sent,
                       Some(DecodeData(json)))
    /\ calls' = [calls EXCEPT ![c] = IdleFrame]
    /\ UNCHANGED <<clock, lastRequestTime, tocVars, geoVars, fnVars>>

\* res.json() of an ok data response rejects (the body is not JSON)
DataJsonRejects(c) ==
    /\ calls[c].pc = "fetching"
    /\ calls[c].op \in {"getDatasetData", "previewData"}
    /\ returned' = Returned(calls[c].op, "none", "parse error", calls[c].sent, Null)
    /\ calls' = [calls EXCEPT ![c] = IdleFrame]
    /\ UNCHANGED <<clock, lastRequestTime, tocVars, geoVars, fnVars>>

StructureResponses ==
    {CodedDimension(<<"A">>, <<"L", "1">>) \o TimeDimension
        \o Codelist(<<"L", "1">>, NamedCode(1) \o NamedCode(2))}

ExampleCube ==
    [id |-> <<"geo", "time">>, size |-> <<2, 3>>, dimension |-> DimensionData,
     value |-> [i \in {0, 5} |-> ValueAt(i)]]

NextOps ==
    \/ \E c \in Calls, query \in SearchQueries : SearchStart(c, "en", query)
    \/ \E c \in Calls, query \in GeoQueries : ResolveStart(c, query)
    \/ \E c \in Calls : StructureStart(c)
    \/ \E c \in Calls : DataStart(c)
    \/ \E c \in Calls : PreviewStart(c)
    \/ \E c \in Calls : TimerFires(c)
    \/ \E c \in Calls : FetchRejects(c)
    \/ \E c \in Calls : ResponseNotOk(c)
    \/ \E c \in Calls : TocTextArrives(c, TocTextEn)
    \/ \E c \in Calls, xml \in GeoResponses : GeoTextArrives(c, xml)
    \/ \E c \in Calls, xml \in StructureResponses : StructureTextArrives(c, xml)
    \/ \E c \in Calls : DataJsonArrives(c, ExampleCube)
    \/ \E c \in Calls : DataJsonRejects(c)
    \/ Tick(MIN_REQUEST_INTERVAL_MS)

SpecOps == Init /\ [][NextOps]_vars

Operations ==
    {"searchDatasets", "getDatasetStructure", "getDatasetData", "previewData",
     "resolveGeoCode"}

\* the request of call c fails in this step: the fetch rejects or the
\* response is not ok
RequestFails(c) == FetchRejects(c) \/ ResponseNotOk(c)

\* C19: a call of any of the five operations dispatches at most one request
\* (a call dispatches only when it has sent none, and its count never
\* exceeds one), and the step in which its request fails ends the call with
\* an error and no value for the caller, leaving both caches as they were.
C19_NoRetry ==
    [][\A c \in Calls :
          /\ calls'[c].sent <= 1
          /\ returned'.sent <= 1
          /\ Dispatches(c) => calls[c].sent = 0 /\ calls'[c].sent = 1
          /\ RequestFails(c) =>
                /\ calls'[c] = IdleFrame
                /\ returned'.op = calls[c].op
                /\ returned'.outcome \in {"transport error", "status error"}
                /\ returned'.value = Null
                /\ returned'.sent = 1
                /\ UNCHANGED <<tocVars, geoVars>>]_vars

\* a previewData call ended with a status error after its single request, while
\* a getDatasetStructure call has its single request in flight
C19_Witness ==
    /\ returned.op = "previewData"
    /\ returned.outcome = "status error"
    /\ returned.sent = 1
    /\ returned.value = Null
    /\ \E c \in Calls : calls[c].op = "getDatasetStructure" /\ calls[c].sent = 1

----------------------------------------------------------------------------
(* Timers that fire late *)

MaxLate == 2
\* how many ms after it is due a timer callback may run

\* setTimeout runs its callback no earlier than the delay: while other
\* callbacks keep the event loop busy the clock passes the time a pending
\* timer was set for
ClockOverruns ==
    LET overdue == {c \in Calls : calls[c].pc = "waiting" /\ calls[c].due <= clock}
    IN  /\ overdue # {}
        /\ \A c \in overdue : clock + 1 - calls[c].due <= MaxLate
        /\ clock' = clock + 1
        /\ UNCHANGED <<lastRequestTime, tocVars, geoVars, calls, returned, fnVars>>

NextLate ==
    \/ \E c \in Calls, query \in SearchQueries : SearchStart(c, "en", query)
    \/ \E c \in Calls, query \in GeoQueries : ResolveStart(c, query)
    \/ \E c \in Calls : TimerFires(c)
    \/ \E c \in Calls : FetchRejects(c)
    \/ \E c \in Calls : ResponseNotOk(c)
    \/ \E c \in Calls : TocTextArrives(c, TocTextEn)
    \/ \E c \in Calls, xml \in GeoResponses : GeoTextArrives(c, xml)
    \/ \E d \in TickSteps : Tick(d)
    \/ ClockOverruns

SpecLate == Init /\ [][NextLate]_vars

\* the time at which call c, dispatching in this step, became eligible: the
\* time its timer was set for, or the time of the call when it did not wait
EligibleAt(c) == IF calls[c].pc = "waiting" THEN calls[c].due ELSE clock

\* C21: callers of rateLimitedFetch are not reordered: when a call
\* dispatches, no other call that became eligible strictly earlier is still
\* waiting to dispatch.
C21_NotReordered ==
    [][\A c \in Calls, k \in Calls :
          (Dispatches(c) /\ k # c /\ calls[k].pc = "waiting")
              => calls[k].due >= EligibleAt(c)]_vars

----------------------------------------------------------------------------
(* The data request, and previewData as a call of getDatasetData *)

\* for (const [key, value] of Object.entries(filters)): one parameter per
\* value, a string value being a single one
FilterParams(filters) ==
    Flatten([i \in 1..Len(filters) |->
                [j \in 1..Len(filters[i].values) |->
                    <<filters[i].key, filters[i].values[j]>>]])

\* the URL of the data request: the dataset code in upper case and the
\* query parameters in the order they are set
DataUrl(datasetCode, filters, lang) ==
    [base    |-> "STATISTICS_URL",
     dataset |-> toUpperCase(datasetCode),
     params  |-> <<<<"format", "JSON">>, <<"lang", toUpperCase(lang)>>>>
                    \o FilterParams(filters)]

\* getDatasetData, given the response its one request is answered with
getDatasetData(datasetCode, filters, lang, res) ==
    [url    |-> DataUrl(datasetCode, filters, lang),
     result |-> IF res.ok THEN [outcome |-> "value", value |-> DecodeData(res.json)]
                ELSE DataError(res.error)]

previewData_NoFilter(datasetCode, lang, res) ==
    getDatasetData(datasetCode, <<>>, lang, res)

\* return getDatasetData(datasetCode, { lastTimePeriod: "1" }, lang)
previewData(datasetCode, lang, res) ==
    getDatasetData(datasetCode, <<[key |-> "lastTimePeriod", values |-> <<"1">>]>>, lang, res)

MaxCells == 2
\* cells of the data responses a preview is answered with

DatasetCodes == {<<"x">>, <<"X", "a">>, <<"a", "_", "b">>}

DataLangs == {<<"E", "N">>, <<"e", "n">>, <<"f", "r">>, <<"d", "e">>}

PreviewResponses ==
    {[ok |-> TRUE, json |-> j, error |-> Null] :
        j \in {r \in DataResponses : Len(r.size) = 1 /\ TotalSize(r.size) <= MaxCells}}
    \cup {[ok |-> TRUE, json |-> ExampleCube, error |-> Null]}
    \cup {[ok |-> FALSE, json |-> Null, error |-> e] :
        e \in {r \in ErrorResponses : r.status = 400}}

InitPreview ==
    /\ MachineInit
    /\ fn = "previewData"
    /\ args \in DatasetCodes \X DataLangs \X PreviewResponses
    /\ ret = Null

PreviewCall ==
    /\ fn = "previewData"
    /\ ret = Null
    /\ ret' = Some(previewData(args[1], args[2], args[3]))
    /\ UNCHANGED <<clock, lastRequestTime, tocVars, geoVars, calls, returned, fn, args>>

NextPreview == PreviewCall

SpecPreview == InitPreview /\ [][NextPreview]_vars

\* the filter selecting only the most recent time period
LastPeriodOnly == <<[key |-> "lastTimePeriod", values |-> <<"1">>]>>

\* C22: previewData(datasetCode, lang) issues the request and returns the
\* result of getDatasetData(datasetCode, filters, lang) with the single
\* filter lastTimePeriod = 1: the request carries format, lang and that one
\* filter parameter and no other.
C22_PreviewIsFilteredData ==
    ret # Null =>
        /\ ret[1] = getDatasetData(args[1], LastPeriodOnly, args[2], args[3])
        /\ ret[1].url.dataset = toUpperCase(args[1])
        /\ ret[1].url.params =
              <<<<"format", "JSON">>, <<"lang", toUpperCase(args[2])>>,
                <<"lastTimePeriod", "1">>>>

\* a preview in lower-case language of a lower-case code, answered with data
C22_Witness ==
    /\ ret # Null
    /\ fn = "previewData"
    /\ args[1] = <<"a", "_", "b">>
    /\ args[2] = <<"f", "r">>
    /\ ret[1].url.dataset = <<"A", "_", "B">>
    /\ ret[1].result.outcome = "value"
    /\ ret[1].url.params[3] = <<"lastTimePeriod", "1">>

----------------------------------------------------------------------------
(* The search_datasets and find_geo_code tools *)

\* what a tool handler returns: the branch taken and the isError flag
ToolResult(text, isError) == [text |-> text, isError |-> isError]

\* searchDatasets once fetchToc has resolved with toc or rejected
SearchOutcome(fetched, query, limit) ==
    IF fetched.ok
    THEN [outcome |-> "value", value |-> searchDatasets(fetched.data, query, limit)]
    ELSE [outcome |-> "error", value |-> <<>>]

\* resolveGeoCode once the codelist is available or its fetch has failed
ResolveOutcome(fetched, query) ==
    IF fetched.ok
    THEN [outcome |-> "value", value |-> resolveFromCache(fetched.data, query)]
    ELSE [outcome |-> "error", value |-> <<>>]

\* the try/catch of a tool handler around the operation's result
ToolHandler_EmptyIsError(r) ==
    IF r.outcome # "value" THEN ToolResult("error", TRUE)
    ELSE IF Len(r.value) = 0 THEN ToolResult("none found", TRUE)
    ELSE ToolResult("found", FALSE)

ToolHandler(r) ==
    IF r.outcome # "value" THEN ToolResult("error", TRUE)
    ELSE IF Len(r.value) = 0 THEN ToolResult("none found", FALSE)
    ELSE ToolResult("found", FALSE)

search_datasets(fetched, query, limit) == ToolHandler(SearchOutcome(fetched, query, limit))

find_geo_code(fetched, query) == ToolHandler(ResolveOutcome(fetched, query))

MaxToolList == 2
\* entries of the catalogues and codelists the tools search

Fetched(lists) ==
    {[ok |-> TRUE, data |-> l] : l \in {t \in lists : Len(t) <= MaxToolList}}
    \cup {[ok |-> FALSE, data |-> <<>>]}

\* queries of at least 2 characters (the tool's schema)
SearchToolQueries == {<<"q", "q">>, <<"A", " ", "b">>, <<" ", " ">>, <<"x", " ", "q">>}

GeoToolQueries == {<<"q">>, <<"a", "t">>, <<"O", "s">>}

InitTools ==
    /\ MachineInit
    /\ \/ /\ fn = "search_datasets"
          /\ args \in Fetched(SearchCatalogs) \X SearchToolQueries \X (1..MaxLimit)
       \/ /\ fn = "find_geo_code"
          /\ args \in Fetched(CachedGeoLists) \X GeoToolQueries
    /\ ret = Null

SearchToolCall ==
    /\ fn = "search_datasets"
    /\ ret = Null
    /\ ret' = Some([op   |-> SearchOutcome(args[1], args[2], args[3]),
                    tool |-> search_datasets(args[1], args[2], args[3])])
    /\ UNCHANGED <<clock, lastRequestTime, tocVars, geoVars, calls, returned, fn, args>>

GeoToolCall ==
    /\ fn = "find_geo_code"
    /\ ret = Null
    /\ ret' = Some([op   |-> ResolveOutcome(args[1], args[2]),
                    tool |-> find_geo_code(args[1], args[2])])
    /\ UNCHANGED <<clock, lastRequestTime, tocVars, geoVars, calls, returned, fn, args>>

NextTools == SearchToolCall \/ GeoToolCall

SpecTools == InitTools /\ [][NextTools]_vars

\* no entry of the fetched catalogue or codelist matches the query
NothingMatches ==
    /\ args[1].ok
    /\ \A k \in 1..Len(args[1].data) :
          IF fn = "search_datasets"
          THEN ~IsExactMatch(args[1].data[k], args[2]) /\ ~IsTermOnlyMatch(args[1].data[k], args[2])
          ELSE ~Qualifies(args[1].data[k], args[2])

\* C23: a query that matches nothing is a success: when the fetch succeeded
\* and no entry matches, searchDatasets and resolveGeoCode return an empty
\* list without an error, and the tool's result is not flagged isError.
C23_EmptyResultIsSuccess ==
    (ret # Null /\ NothingMatches) =>
        /\ ret[1].op.outcome = "value"
        /\ ret[1].op.value = <<>>
        /\ ret[1].tool.isError = FALSE
        /\ ret[1].tool.text = "none found"

\* a search of a non-empty catalogue that matched nothing
C23_Witness ==
    /\ ret # Null
    /\ fn = "search_datasets"
    /\ NothingMatches
    /\ Len(args[1].data) = MaxToolList
    /\ args[2] = <<"q", "q">>
    /\ ret[1].tool = ToolResult("none found", FALSE)

----------------------------------------------------------------------------
(* The categories of one dimension *)

MaxIndexValue == 2
\* largest index value of a category

CategoryKeys == {"a", "b", "10"}

\* Object.entries(indexMap): distinct keys in the order the engine
\* enumerates them, each with its numeric index value
IndexEntries ==
    UNION {{e \in [1..n -> CategoryKeys \X (0..MaxIndexValue)] :
               \A i, j \in 1..n : i # j => e[i][1] # e[j][1]} :
           n \in 0..Cardinality(CategoryKeys)}

\* category.label: a label, an empty label, or no entry for a key
LabelMaps ==
    UNION {[keys -> {"", "A label"}] : keys \in SUBSET CategoryKeys}

CategoryResponses ==
    {[id |-> <<"d">>, size |-> <<Len(e)>>, value |-> <<>>,
      dimension |-> [d |-> [label |-> "D", index |-> e, labels |-> l]]] :
        e \in IndexEntries, l \in LabelMaps}

InitCategories ==
    /\ MachineInit
    /\ fn = "dimensions"
    /\ args \in {<<json>> : json \in CategoryResponses}
    /\ ret = Null

\* the callback of dimIds.map applied to the response's dimension
CategoriesCall ==
    /\ fn = "dimensions"
    /\ ret = Null
    /\ ret' = Some(DimensionOf(args[1], args[1].id[1]))
    /\ UNCHANGED <<clock, lastRequestTime, tocVars, geoVars, calls, returned, fn, args>>

NextCategories == CategoriesCall

SpecCategories == InitCategories /\ [][NextCategories]_vars

\* the index map and label map of the response's dimension
IndexMapOf(json) == json.dimension[json.id[1]].index

LabelMapOf(json) == json.dimension[json.id[1]].labels

\* the index value the map gives a key
IndexValueOf(json, key) ==
    LET e == IndexMapOf(json)
    IN  e[CHOOSE i \in 1..Len(e) : e[i][1] = key][2]

\* the realized categories are the keys of the index map, each once, in
\* ascending order of their index values
KeysByIndexValue(json, categories) ==
    /\ Len(categories) = Len(IndexMapOf(json))
    /\ {categories[k].id : k \in 1..Len(categories)}
          = {IndexMapOf(json)[i][1] : i \in 1..Len(IndexMapOf(json))}
    /\ \A k, m \in 1..Len(categories) :
          k < m => IndexValueOf(json, categories[k].id) <= IndexValueOf(json, categories[m].id)

----------------------------------------------------------------------------
(* The codes of one codelist block *)

MaxCodes == 3
\* codes in a codelist block

\* a code with an English name only
EnglishCode(k) ==
    <<[tag |-> "Code", id |-> <<"c", ToString(k)>>],
      [tag |-> "Name", lang |-> "en", text |-> <<"n", ToString(k)>>]>>

\* a code without a name
NamelessCode(k) == <<[tag |-> "Code", id |-> <<"c", ToString(k)>>]>>

CodeOfKind(kind, k) ==
    CASE kind = "named"   -> NamedCode(k)
      [] kind = "english" -> EnglishCode(k)
      [] kind = "foreign" -> ForeignCode(k)
      [] OTHER            -> NamelessCode(k)

\* the content of a codelist block: codes c1, c2, ... of any kind
CodelistContents ==
    {{Flatten([k \in 1..n |-> CodeOfKind(kinds[k], k)]) :
          kinds \in [1..n -> {"named", "english", "foreign", "nameless"}]} : n \in 0..MaxCodes}

InitCodes ==
    /\ MachineInit
    /\ fn = "codes"
    /\ args \in {<<clContent>> : clContent \in UNION CodelistContents}
    /\ ret = Null

\* the inner while loop of the codelist scan, on the content of one block
CodesCall ==
    /\ fn = "codes"
    /\ ret = Null
    /\ ret' = Some(Codes(args[1]))
    /\ UNCHANGED <<clock, lastRequestTime, tocVars, geoVars, calls, returned, fn, args>>

NextCodes == CodesCall

SpecCodes == InitCodes /\ [][NextCodes]_vars

\* the codes of the block that have an English label of their own
LabelledCodes(block) ==
    {c \in 1..Len(block) : block[c].tag = "Code" /\ OwnEnName(block, c) # 0}

\* C25: within a codelist block every code that has an English label is
\* extracted, in document order, each paired with its own English label,
\* also when some code of the block has no English label.
C25_OwnEnglishLabels ==
    ret # Null =>
        /\ Len(ret[1]) = Cardinality(LabelledCodes(args[1]))
        /\ IsPrefixOfCodelist(ret[1], args[1])

----------------------------------------------------------------------------
(* getDatasetStructure and the caches, under SpecOps *)

\* call c is a call of getDatasetStructure that ends in this step
StructureEnds(c) ==
    calls[c].op = "getDatasetStructure" /\ calls[c].pc # "idle" /\ calls'[c].pc = "idle"

\* C26: getDatasetStructure is never served from a cache: whatever calls
\* came before, a call goes to the fetcher (no step returns a structure
\* without a call that fetched it), a call that ends has dispatched exactly
\* one request, its value is the parse of a response, and no step of the
\* call changes a cache.
C26_StructureAlwaysLive ==
    [][/\ \A c \in Calls :
            /\ (calls[c].pc = "idle" /\ calls'[c].op = "getDatasetStructure")
                  => calls'[c].pc \in {"waiting", "fetching"} /\ returned' = returned
            /\ (calls[c].op = "getDatasetStructure" /\ calls'[c] # calls[c])
                  => UNCHANGED <<tocVars, geoVars>>
            /\ StructureEnds(c) =>
                  /\ returned'.op = "getDatasetStructure"
                  /\ returned'.sent = 1
                  /\ returned'.outcome = "value" =>
                        \E xml \in StructureResponses :
                            returned'.value = Some(ParseStructure(xml, <<"x">>))
       /\ (returned' # returned /\ returned'.op = "getDatasetStructure")
            => \E c \in Calls : StructureEnds(c)]_vars

\* a call has returned a structure after one request, the catalogue cache
\* is filled, and the next call for the same dataset is fetching again
C26_Witness ==
    /\ returned.op = "getDatasetStructure"
    /\ returned.outcome = "value"
    /\ returned.sent = 1
    /\ cachedToc # Null
    /\ \E c \in Calls : calls[c].op = "getDatasetStructure" /\ calls[c].pc = "fetching"

----------------------------------------------------------------------------
(* The language of the cached catalogue, under Spec *)

\* the catalogues a fetch for lang can give
CatalogsFor(lang) == {ParseToc(text) : text \in TocResponses(lang)}

\* C27: the catalogue that a searchDatasets call for language L searches
\* was fetched for L: whenever a search returns a value, the snapshot it
\* searched (the cached one, or the one it has just fetched and stored) is a
\* catalogue of the language it asked for.
C27_CatalogInRequestedLanguage ==
    [][(returned' # returned /\ returned'.op = "searchDatasets"
            /\ returned'.outcome = "value")
          => /\ cachedToc' # Null
             /\ cachedToc'[1] \in CatalogsFor(returned'.lang)]_vars

----------------------------------------------------------------------------
(* Overlapping refreshes of one cache, under Spec *)

\* C28: under overlapping refreshes of the same cache the cache timestamp
\* never decreases, so that the snapshot and timestamp left by two
\* overlapping refreshes are those of the one that started last; and the
\* timestamp recorded with a snapshot is never later than the moment its
\* response was received.
C28_LastStartedRefreshWins ==
    [][/\ tocCachedAt' >= tocCachedAt
       /\ geoCodesCachedAt' >= geoCodesCachedAt
       /\ \A c \in Calls :
            /\ Stores(c, "searchDatasets") => tocCachedAt' <= clock
            /\ Stores(c, "resolveGeoCode") => geoCodesCachedAt' <= clock]_vars

----------------------------------------------------------------------------
(* Every call dispatches: the fetcher with time that always passes *)

\* calls are made until StartTime + Slack
LiveStructureStart(c) ==
    /\ clock <= StartTime + Slack
    /\ StructureStart(c)

\* time passes until the earliest pending timer is due
TimerDue ==
    LET dues == {calls[c].due : c \in {k \in Calls : calls[k].pc = "waiting"}}
    IN  /\ dues # {}
        /\ \A t \in dues : t > clock
        /\ clock' = CHOOSE t \in dues : \A u \in dues : t <= u
        /\ UNCHANGED <<lastRequestTime, tocVars, geoVars, calls, returned, fnVars>>

NextLive ==
    \/ \E c \in Calls : LiveStructureStart(c)
    \/ \E c \in Calls : TimerFires(c)
    \/ \E c \in Calls : FetchRejects(c)
    \/ \E c \in Calls : ResponseNotOk(c)
    \/ \E c \in Calls, xml \in StructureResponses : StructureTextArrives(c, xml)
    \/ TimerDue
    \/ ClockOverruns

\* the event loop runs a timer callback that is due, if late, and time passes
SpecLive ==
    /\ Init
    /\ [][NextLive]_vars
    /\ \A c \in Calls : WF_vars(TimerFires(c))
    /\ WF_vars(TimerDue)

----------------------------------------------------------------------------
(* The SSE transport: GET /sse and POST /messages *)

MaxSessions == 3
\* GET /sse connections opened in a run

\* transport.sessionId: a fresh random UUID for every connection
SessionIds == {"s" \o ToString(i) : i \in 1..MaxSessions}

\* property names every object literal inherits from Object.prototype
ObjectPrototypeKeys == {"constructor", "__proto__"}

\* the sessionId query parameter of a POST: any string the client sends
PostedIds == SessionIds \cup ObjectPrototypeKeys \cup {"unknown"}

\* the state of main's SSE part is kept in args: the table `transports`,
\* the connections that are open, and the session ids already drawn
transports == args.transports

SseState(table, open, drawn) == [transports |-> table, open |-> open, drawn |-> drawn]

\* transports[sessionId] on the object literal: an own entry, else what the
\* prototype chain gives, else undefined
TableLookup(table, sessionId) ==
    IF sessionId \in DOMAIN table THEN [kind |-> "transport", sessionId |-> sessionId]
    ELSE IF sessionId \in ObjectPrototypeKeys THEN [kind |-> "inherited", sessionId |-> sessionId]
    ELSE [kind |-> "undefined", sessionId |-> sessionId]

\* delete transports[transport.sessionId]
TableDelete(table, sessionId) == [k \in DOMAIN table \ {sessionId} |-> table[k]]

\* app.post("/messages"): 400 when the lookup is falsy, else
\* transport.handlePostMessage, which only a transport has
PostAnswer(table, sessionId) ==
    LET transport == TableLookup(table, sessionId) IN
    IF transport.kind = "undefined"
    THEN [sessionId |-> sessionId, status |-> 400, routedTo |-> Null, threw |-> FALSE]
    ELSE IF transport.kind = "transport"
    THEN [sessionId |-> sessionId, status |-> 202, routedTo |-> Some(sessionId), threw |-> FALSE]
    ELSE [sessionId |-> sessionId, status |-> 0, routedTo |-> Null, threw |-> TRUE]

InitSse ==
    /\ MachineInit
    /\ fn = "sse"
    /\ args = SseState(<<>>, {}, {})
    /\ ret = Null

\* app.get("/sse"): the transport is entered in the table and the close
\* handler registered before the handler's first await
SseOpen(id) ==
    /\ fn = "sse"
    /\ id \in SessionIds \ args.drawn
    /\ args' = SseState([k \in DOMAIN transports \cup {id} |-> [sessionId |-> k]],
                        args.open \cup {id}, args.drawn \cup {id})
    /\ UNCHANGED <<clock, lastRequestTime, tocVars, geoVars, calls, returned, fn, ret>>

\* res.on("close") of the connection of session id
SseClose(id) ==
    /\ fn = "sse"
    /\ id \in args.open
    /\ args' = SseState(TableDelete(transports, id), args.open \ {id}, args.drawn)
    /\ UNCHANGED <<clock, lastRequestTime, tocVars, geoVars, calls, returned, fn, ret>>

\* POST /messages?sessionId=id
PostMessage(id) ==
    /\ fn = "sse"
    /\ ret' = Some(PostAnswer(transports, id))
    /\ UNCHANGED <<clock, lastRequestTime, tocVars, geoVars, calls, returned, fn, args>>

NextSse ==
    \/ \E id \in SessionIds : SseOpen(id)
    \/ \E id \in SessionIds : SseClose(id)
    \/ \E id \in PostedIds : PostMessage(id)

SpecSse == InitSse /\ [][NextSse]_vars

\* C30: a session id is in the table exactly while its GET /sse connection
\* is open; a POST /messages for a session id that is not in the table is
\* answered with status 400 and routed to no transport; closing a session
\* removes that session and no other.
C30_SessionTable ==
    [][/\ DOMAIN transports' = args'.open
       /\ \A id \in PostedIds :
            (PostMessage(id) /\ id \notin DOMAIN transports)
                => ret'[1].status = 400 /\ ret'[1].routedTo = Null
       /\ \A id \in SessionIds :
            SseClose(id) => DOMAIN transports' = DOMAIN transports \ {id}]_vars

====
